---- MODULE Spec2Model ----
(***************************************************************************)
(* Agent Office core of gemkit-cli: the event bus (OfficeEventEmitter),    *)
(* the session file watcher with its diff engine (SessionFileWatcher),     *)
(* the projection mapper (sessionToOfficeState) and their wiring.          *)
(*                                                                         *)
(* Encoding of JavaScript values:                                          *)
(*   null / undefined string  -> NULL ("null")                             *)
(*   optional object or list  -> <<>> (absent) or <<v>> (present)          *)
(*   a Set<listener>          -> a sequence without repeats, in insertion  *)
(*                               order (the order a JS Set iterates in)    *)
(*   a thrown exception       -> the field threw of an operator's result   *)
(***************************************************************************)
EXTENDS Integers, Sequences, FiniteSets, TLC

VARIABLES
  emitter,      \* the OfficeEventEmitter: state, stateListeners, eventListeners,
                \* eventHistory; and, as ghost fields, what each listener was
                \* invoked with (seenStates, seenEvents) and the events passed
                \* to emit since construction or the last dispose (emitted)
  faulty,       \* the listeners whose body throws when invoked
  busCalls,     \* ghost: calls made on the bus that invoke listeners
  lastOp        \* ghost: the last call made on the bus, and how it ended

busVars == <<emitter, faulty, busCalls, lastOp>>

VARIABLES
  dPrev,        \* the previous snapshot handed to diffSessions
  dCurr,        \* the current snapshot handed to diffSessions
  dResult,      \* <<>> before the call, <<what diffSessions returned>> after it
  dAgain,       \* <<what a second call with the same snapshots returned>>
  dNow          \* what Date.now() returned in the calls made so far

diffVars == <<dPrev, dCurr, dResult, dAgain, dNow>>

VARIABLES
  wiring,       \* who built the watcher: "dashboard" (WebDashboard), "status"
                \* (handleStatus) or "watch" (handleWatch)
  env,          \* whether .gemini/.env names a project dir and an active session
  file,         \* the session file: exists, content, mtime
  watcher,      \* the SessionFileWatcher: pollInterval (armed or not),
                \* previousSession, previousMtime, sessionPath (set or not)
  alive,        \* FALSE once a callback has called process.exit
  startResult,  \* "none" before start(), then what it returned
  ticks,        \* timer ticks fired so far
  writes,       \* writes of the session file by other processes so far
  opLog,        \* ghost: the polls, callbacks and stop() calls of the last
                \* watcher operation (start, a tick, stop), in order
  stopCalled,   \* ghost: stop() has been called
  stoppedBefore,\* ghost: stop() had been called before the last operation began
  lastPoll,     \* ghost: <<what the last tick did>>
  prevPoll      \* ghost: <<what the tick before it did>>

watchVars == <<wiring, env, file, watcher, alive, startResult, ticks, writes,
               opLog, stopCalled, stoppedBefore, lastPoll, prevPoll>>

VARIABLES
  tAgent,       \* the agent view handed to transitionAgent
  tEvent,       \* the event handed to transitionAgent
  tResult,      \* <<>> before the call, <<the view transitionAgent returned>> after
  mSession,     \* the snapshot handed to sessionToOfficeState
  mNow,         \* what Date.now() returned in the mappings made so far
  mResult,      \* <<>> before the call, <<what sessionToOfficeState returned>> after
  mAgain        \* <<what a second mapping of the same snapshot returned>>

fnVars == <<tAgent, tEvent, tResult, mSession, mNow, mResult, mAgain>>

VARIABLES
  server,       \* the OfficeWebServer: server and wss (set or null), clients
  startPromise, \* the promise start() returned: state, port, and (ghost) the
                \* number of listen() calls made for it
  portsInUse,   \* how many consecutive ports from the configured one are taken
  portAfter,    \* what listen() meets on the first port not taken
  sockets,      \* the WebSocket of each client: readyState, whether send()
                \* throws, and the frames sent on it
  due,          \* ghost: per socket, the frames of the publications made while
                \* it was connected and open
  connectedWith,\* ghost: per socket, <<the projection the bus held when it connected>>
  lastRequest,  \* <<the last HTTP request>>
  lastResponse  \* <<the response to it>>

srvVars == <<server, startPromise, portsInUse, portAfter, sockets, due,
             connectedWith, lastRequest, lastResponse>>

VARIABLES
  heap,    \* the objects projections are made of: states (index = reference)
           \* whose agents field refers to an entry of maps
  held,    \* the references a component outside the bus holds
  pubLog   \* ghost: each projection the bus took, as it was when it took it

shareVars == <<heap, held, pubLog>>

VARIABLES
  lockFile,   \* <<>> when LOCK_FILE does not exist, else <<its LockData>>
  lockClock,  \* Date.now(), in milliseconds
  players     \* per process: its ElevatorMusic and where its call stands

lockVars == <<lockFile, lockClock, players>>

vars == <<busVars, diffVars, watchVars, fnVars, srvVars, shareVars, lockVars>>

NULL == "null"

\* what reading a property that an object lacks gives
UNDEFINED == "undefined"

----------------------------------------------------------------------------
(* Bounds *)

\* emits per bus in the history specification (the test emits 1100)
MaxEmits == 1100

\* calls of emit / setState in the listener specification
MaxBusCalls == 3

\* length of an agent's injected skills list
MaxSkills == 2

\* timer ticks of one watcher
MaxTicks == 3

\* writes of the session file by other processes
MaxWrites == 2

\* agent records of a snapshot handed to the mapper
MaxAgents == 2

\* the projection objects one run allocates
MaxObjects == 4

\* the ports taken in a row from the configured one
MaxBusyPorts == 11

\* the publications made on the bus of a started server
MaxPublications == 2

----------------------------------------------------------------------------
(* Sequence helpers *)

Last(s) == s[Len(s)]

Min(a, b) == IF a < b THEN a ELSE b

Range(s) == {s[i] : i \in 1..Len(s)}

\* Set.prototype.add on an insertion-ordered set
SetAdd(s, x) == IF x \in Range(s) THEN s ELSE Append(s, x)

\* Set.prototype.delete
SetDelete(s, x) == SelectSeq(s, LAMBDA y : y # x)

\* sequences over S of length at most n
SeqsUpTo(S, n) == UNION {[1..k -> S] : k \in 0..n}

----------------------------------------------------------------------------
(* Session snapshots (GkSession, GkAgent) *)

AgentIds == {"a1", "a2"}

\* addAgent gives the root record the id of its session
SessionId == "a1"

SkillNames == {"s1", "s2"}

Statuses == {"active", "completed", "failed"}

\* agentRole of the records the model writes: the writer's default for a root
\* record is 'main'
RoleOf(id) == IF id = "a1" THEN "main" ELSE "researcher"

\* a GkAgent record; skills is injected?.skills (absent: <<>>, present: <<list>>)
GkAgent(id, parent, type, status, skills) ==
  [gkSessionId |-> id, parentGkSessionId |-> parent, agentType |-> type,
   agentRole |-> RoleOf(id), status |-> status, skills |-> skills,
   startTime |-> <<0>>, endTime |-> <<>>, prompt |-> <<>>, tokenUsage |-> <<>>]

\* a GkSession; agents is absent (<<>>) or present (<<list>>)
GkSession(agents) ==
  [gkSessionId |-> SessionId, projectDir |-> "/proj", activePlan |-> NULL,
   appName |-> "code", agents |-> agents]

\* agent.injected?.skills || []
SkillsOf(agent) == IF agent.skills = <<>> THEN <<>> ELSE agent.skills[1]

----------------------------------------------------------------------------
(* Projection mapper: session-bridge (src/domains/agent-office/types.ts) *)

getCharacterType(role) ==
  CASE role = "main" -> "orchestrator"
    [] role = "researcher" -> "researcher"
    [] role = "coder" -> "coder"
    [] OTHER -> "other"

getIconForRole(role, isOrch) ==
  IF isOrch THEN "crown"
  ELSE CASE role = "researcher" -> "magnifier"
         [] role = "coder" -> "laptop"
         [] OTHER -> "robot"

formatDisplayName(role) ==
  CASE role = "main" -> "Main"
    [] role = "researcher" -> "Researcher"
    [] role = "Agent" -> "Agent"
    [] OTHER -> role

isOrchestrator_TypeOnly(agent, session) == agent.agentType = "Main Agent"

isOrchestrator(agent, session) ==
  \/ agent.agentType = "Main Agent"
  \/ agent.parentGkSessionId = NULL
  \/ agent.gkSessionId = session.gkSessionId

mapStatusToState(status, hasActiveSkill) ==
  IF status = "active" THEN "working" ELSE "idle"

\* Math.round: the nearest integer, halves towards +infinity
RoundDiv(a, b) == (2 * a + b) \div (2 * b)

calculateProgress(agent, now) ==
  IF agent.status = "completed" THEN 100
  ELSE IF agent.status = "failed" THEN 0
  ELSE IF agent.startTime = <<>> THEN 0
  ELSE Min(100, RoundDiv((now - agent.startTime[1]) * 100, 120000))

\* a string | null: <<>> is null, <<text>> a string
generateSpeechBubble(agent) ==
  IF agent.status = "completed" THEN <<<<"Task complete!">>>>
  ELSE IF agent.status = "failed" THEN <<<<"Task failed">>>>
  ELSE IF SkillsOf(agent) # <<>> THEN <<<<"Working on", SkillsOf(agent)[1]>>>>
  ELSE <<>>

agentToOfficeAgent(agent, session, now) ==
  LET isOrch == isOrchestrator(agent, session)
      hasActiveSkill == SkillsOf(agent) # <<>> /\ agent.status = "active"
      role == IF agent.agentRole = "" THEN "unknown" ELSE agent.agentRole
      base == [id |-> agent.gkSessionId,
               agentType |-> IF isOrch THEN "orchestrator" ELSE "sub-agent",
               role |-> role,
               characterType |-> getCharacterType(role),
               icon |-> getIconForRole(role, isOrch),
               state |-> mapStatusToState(agent.status, hasActiveSkill),
               activeSkill |-> IF SkillsOf(agent) # <<>> THEN SkillsOf(agent)[1] ELSE NULL,
               progress |-> calculateProgress(agent, now),
               speechBubble |-> generateSpeechBubble(agent),
               hasFireEffect |-> hasActiveSkill,
               gkSessionId |-> agent.gkSessionId,
               parentSessionId |-> agent.parentGkSessionId]
      subAgents == SelectSeq(session.agents[1], LAMBDA a : ~isOrchestrator(a, session))
      active == SelectSeq(subAgents, LAMBDA a : a.status = "active")
  IN IF isOrch
     THEN base @@
          [delegatedTo |-> [i \in 1..Len(active) |-> active[i].gkSessionId],
           totalSubAgents |-> Len(subAgents),
           completedSubAgents |->
             Len(SelectSeq(subAgents, LAMBDA a : a.status = "completed"))]
     ELSE base

agentToInboxItem(agent, now) ==
  [id |-> <<"inbox-", agent.gkSessionId>>,
   agentId |-> agent.gkSessionId,
   agentRole |-> IF agent.agentRole = "" THEN "unknown" ELSE agent.agentRole,
   agentIcon |-> getIconForRole(agent.agentRole, FALSE),
   timestamp |-> IF agent.endTime # <<>> THEN agent.endTime[1] ELSE now,
   status |-> "unread",
   title |-> <<formatDisplayName(IF agent.agentRole = "" THEN "Agent" ELSE agent.agentRole),
               "completed">>,
   preview |-> IF agent.prompt # <<>> /\ agent.prompt[1] # <<>>
               THEN SubSeq(agent.prompt[1], 1, Min(100, Len(agent.prompt[1])))
               ELSE <<"Task completed">>,
   fullContent |-> NULL,
   tokenUsage |-> IF agent.tokenUsage # <<>>
                  THEN <<[input |-> agent.tokenUsage[1].input,
                          output |-> agent.tokenUsage[1].output]>>
                  ELSE <<>>,
   duration |-> IF agent.endTime # <<>> /\ agent.startTime # <<>>
                THEN agent.endTime[1] - agent.startTime[1] ELSE 0,
   skillsUsed |-> SkillsOf(agent)]

createInitialState ==
  [orchestrator |-> <<>>, agents |-> [id \in {} |-> NULL], sessionId |-> NULL,
   projectDir |-> NULL, activePlan |-> NULL, appName |-> NULL,
   currentNotification |-> <<>>, inbox |-> <<>>, documents |-> <<>>,
   isActive |-> FALSE]

\* inbox.sort((a, b) => b.timestamp - a.timestamp): stable, newest first
RECURSIVE SortInbox(_)
SortInbox(items) ==
  IF items = <<>> THEN <<>>
  ELSE LET rest == SortInbox(Tail(items))
           x == Head(items)
           before == SelectSeq(rest, LAMBDA y : y.timestamp > x.timestamp)
           after == SelectSeq(rest, LAMBDA y : y.timestamp <= x.timestamp)
       IN before \o <<x>> \o after

placeAgent_NoLookup(state, agent, officeAgent, now) ==
  LET placed ==
        IF officeAgent.agentType = "orchestrator"
        THEN [state EXCEPT !.orchestrator = <<officeAgent>>]
        ELSE [state EXCEPT !.agents =
                [id \in DOMAIN state.agents \cup {officeAgent.id} |->
                   IF id = officeAgent.id THEN officeAgent ELSE state.agents[id]]]
  IN IF agent.status = "completed"
     THEN [placed EXCEPT !.inbox = Append(@, agentToInboxItem(agent, now))]
     ELSE placed

placeAgent_AlsoListsOrchestrator(state, agent, officeAgent, now) ==
  LET listed == [state EXCEPT !.agents =
                   [id \in DOMAIN state.agents \cup {officeAgent.id} |->
                      IF id = officeAgent.id THEN officeAgent ELSE state.agents[id]]]
      placed == IF officeAgent.agentType = "orchestrator"
                THEN [listed EXCEPT !.orchestrator = <<officeAgent>>]
                ELSE listed
      existingItem == \E i \in 1..Len(state.inbox) :
                        state.inbox[i].agentId = agent.gkSessionId
  IN IF agent.status = "completed" /\ ~existingItem
     THEN [placed EXCEPT !.inbox = Append(@, agentToInboxItem(agent, now))]
     ELSE placed

\* the loop body of sessionToOfficeState for one agent record and its
\* officeAgent: placed as orchestrator or sub-agent, an inbox item if completed
placeAgent(state, agent, officeAgent, now) ==
  LET placed ==
        IF officeAgent.agentType = "orchestrator"
        THEN [state EXCEPT !.orchestrator = <<officeAgent>>]
        ELSE [state EXCEPT !.agents =
                [id \in DOMAIN state.agents \cup {officeAgent.id} |->
                   IF id = officeAgent.id THEN officeAgent ELSE state.agents[id]]]
      existingItem == \E i \in 1..Len(state.inbox) :
                        state.inbox[i].agentId = agent.gkSessionId
  IN IF agent.status = "completed" /\ ~existingItem
     THEN [placed EXCEPT !.inbox = Append(@, agentToInboxItem(agent, now))]
     ELSE placed

\* for (const agent of session.agents) { ... }
RECURSIVE MapAgents(_, _, _, _)
MapAgents(state, agents, session, now) ==
  IF agents = <<>> THEN state
  ELSE MapAgents(placeAgent(state, Head(agents),
                            agentToOfficeAgent(Head(agents), session, now), now),
                 Tail(agents), session, now)

sessionToOfficeState_KeepsAppName(session, now) ==
  IF session = <<>> THEN [threw |-> FALSE, state |-> createInitialState]
  ELSE IF session[1].agents = <<>> THEN [threw |-> TRUE, state |-> createInitialState]
  ELSE [threw |-> FALSE,
        state |-> [MapAgents([createInitialState EXCEPT
                                !.sessionId = session[1].gkSessionId,
                                !.projectDir = session[1].projectDir,
                                !.activePlan = session[1].activePlan,
                                !.appName = session[1].appName,
                                !.isActive = \E i \in 1..Len(session[1].agents[1]) :
                                               session[1].agents[1][i].status = "active"],
                             session[1].agents[1], session[1], now)
                     EXCEPT !.inbox = SortInbox(@)]]

\* session is <<>> (null) or <<GkSession>>; a session without its agents list
\* makes session.agents.some throw
sessionToOfficeState(session, now) ==
  IF session = <<>> THEN [threw |-> FALSE, state |-> createInitialState]
  ELSE IF session[1].agents = <<>> THEN [threw |-> TRUE, state |-> createInitialState]
  ELSE LET s == session[1]
           start == [createInitialState EXCEPT
                       !.sessionId = s.gkSessionId,
                       !.projectDir = s.projectDir,
                       !.activePlan = s.activePlan,
                       !.appName = IF s.appName \in {"", UNDEFINED} THEN NULL
                                   ELSE s.appName,
                       !.isActive = \E i \in 1..Len(s.agents[1]) :
                                       s.agents[1][i].status = "active"]
       IN [threw |-> FALSE,
           state |-> [MapAgents(start, s.agents[1], s, now) EXCEPT !.inbox = SortInbox(@)]]

----------------------------------------------------------------------------
(* Agent state machine (src/domains/agent-office/state-machine.ts) *)

AgentStates == {"idle", "working", "walking", "delivering", "receiving"}

OfficeEventTypes ==
  {"agent_idle", "agent_working", "skill_activated", "handoff_start",
   "handoff_complete", "received_work", "delivering", "task_complete",
   "session_complete"}

VALID_TRANSITIONS_WorkingStays ==
  [from \in AgentStates |->
     CASE from = "idle" -> {"working", "walking", "receiving"}
       [] from = "working" -> {"idle", "delivering", "walking", "working"}
       [] from = "walking" -> {"idle", "working", "delivering"}
       [] from = "delivering" -> {"idle", "walking"}
       [] from = "receiving" -> {"working", "idle"}]

VALID_TRANSITIONS ==
  [from \in AgentStates |->
     CASE from = "idle" -> {"working", "walking", "receiving"}
       [] from = "working" -> {"idle", "delivering", "walking"}
       [] from = "walking" -> {"idle", "working", "delivering"}
       [] from = "delivering" -> {"idle", "walking"}
       [] from = "receiving" -> {"working", "idle"}]

isValidTransition_Any(from, to) == TRUE

\* VALID_TRANSITIONS[from]?.includes(to) ?? false
isValidTransition(from, to) ==
  IF from \in DOMAIN VALID_TRANSITIONS THEN to \in VALID_TRANSITIONS[from] ELSE FALSE

\* stateMap[event.type]; NULL where the map has no entry
stateMap(type) ==
  CASE type = "agent_idle" -> "idle"
    [] type = "agent_working" -> "working"
    [] type = "skill_activated" -> "working"
    [] type = "handoff_start" -> "walking"
    [] type = "received_work" -> "receiving"
    [] type = "delivering" -> "delivering"
    [] type = "task_complete" -> "idle"
    [] OTHER -> NULL

moved_SkillFromEvent(agent, event, newState) ==
  [agent EXCEPT !.state = newState,
                !.activeSkill = event.skill,
                !.hasFireEffect = (event.type = "skill_activated"),
                !.speechBubble = IF event.message # <<>> THEN <<event.message>> ELSE <<>>]

\* { ...agent, state: newState, activeSkill: event.skill ?? agent.activeSkill,
\*   hasFireEffect: event.type === 'skill_activated',
\*   speechBubble: event.message || null }; the empty message is <<>>
moved(agent, event, newState) ==
  [agent EXCEPT !.state = newState,
                !.activeSkill = IF event.skill # NULL THEN event.skill ELSE @,
                !.hasFireEffect = (event.type = "skill_activated"),
                !.speechBubble = IF event.message # <<>> THEN <<event.message>> ELSE <<>>]

transitionAgent(agent, event) ==
  IF stateMap(event.type) = NULL THEN agent
  ELSE IF ~isValidTransition(agent.state, stateMap(event.type)) THEN agent
  ELSE moved(agent, event, stateMap(event.type))

\* generateNotification(event): <<>> is null
generateNotification(event) ==
  CASE event.type = "skill_activated" ->
         <<[message |-> <<"Skill activated: ", event.skill>>, type |-> "skill",
            timestamp |-> event.timestamp]>>
    [] event.type = "handoff_start" ->
         <<[message |-> <<"Agent delivering information...">>, type |-> "handoff",
            timestamp |-> event.timestamp]>>
    [] event.type = "handoff_complete" ->
         <<[message |-> <<"Handoff complete!">>, type |-> "handoff",
            timestamp |-> event.timestamp]>>
    [] event.type = "task_complete" ->
         <<[message |-> <<"Task completed! Check your inbox">>, type |-> "success",
            timestamp |-> event.timestamp]>>
    [] OTHER -> <<>>

\* a heap without objects
NoObjects == [states |-> <<>>, maps |-> <<>>]

\* a projection built by the mapper becomes a new state object with a new Map
alloc(H, state) ==
  [states |-> Append(H.states, [state EXCEPT !.agents = Len(H.maps) + 1]),
   maps |-> Append(H.maps, state.agents)]

\* what reading the object behind a reference gives now
deref(H, ref) == [H.states[ref] EXCEPT !.agents = H.maps[@]]

\* state.agents.set(...) / state.orchestrator = ...: the transition is stored
\* in the object processEvent was given
storeTransition(H, ref, event) ==
  IF event.agentId \in DOMAIN H.maps[H.states[ref].agents]
  THEN [H EXCEPT !.maps[H.states[ref].agents][event.agentId] = transitionAgent(@, event)]
  ELSE IF H.states[ref].orchestrator # <<>>
          /\ H.states[ref].orchestrator[1].id = event.agentId
  THEN [H EXCEPT !.states[ref].orchestrator = <<transitionAgent(@[1], event)>>]
  ELSE H

\* state.currentNotification = notification, when there is one
storeNotification(H, ref, notification) ==
  IF notification # <<>> THEN [H EXCEPT !.states[ref].currentNotification = notification]
  ELSE H

\* return { ...state }: a new object with the same fields, the agents Map shared
spread(H, ref) == [H EXCEPT !.states = Append(@, H.states[ref])]

\* processEvent(state, event): the heap it leaves and the reference it returns
processEvent(H, ref, event) ==
  [heap |-> spread(storeNotification(storeTransition(H, ref, event), ref,
                                     generateNotification(event)), ref),
   ret |-> Len(H.states) + 1]

----------------------------------------------------------------------------
(* Diff engine: SessionFileWatcher.diffSessions / createEvent
   (src/domains/agent-office/file-watcher.ts) *)

\* messages[type]
MessageFor(type, skill) ==
  CASE type = "agent_idle" -> <<"Waiting for work">>
    [] type = "agent_working" -> <<"Working...">>
    [] type = "skill_activated" ->
         <<"Activated skill: ", IF skill = NULL THEN "unknown" ELSE skill>>
    [] type = "handoff_start" -> <<"Passing work...">>
    [] type = "handoff_complete" -> <<"Handoff complete!">>
    [] type = "received_work" -> <<"Received work">>
    [] type = "delivering" -> <<"Delivering results...">>
    [] type = "task_complete" -> <<"Task complete!">>
    [] type = "session_complete" -> <<"All tasks completed">>

\* skill is NULL when the caller passes none
createEvent_FixedStamp(type, agent, timestamp, skill) ==
  [type |-> type,
   agentId |-> agent.gkSessionId,
   targetAgentId |-> agent.parentGkSessionId,
   skill |-> IF skill # NULL THEN skill
             ELSE IF SkillsOf(agent) # <<>> THEN SkillsOf(agent)[1] ELSE NULL,
   message |-> MessageFor(type, skill),
   timestamp |-> 0,
   characterType |-> getCharacterType(IF agent.agentRole = "" THEN "coder"
                                      ELSE agent.agentRole)]

createEvent(type, agent, timestamp, skill) ==
  [type |-> type,
   agentId |-> agent.gkSessionId,
   targetAgentId |-> agent.parentGkSessionId,
   skill |-> IF skill # NULL THEN skill
             ELSE IF SkillsOf(agent) # <<>> THEN SkillsOf(agent)[1] ELSE NULL,
   message |-> MessageFor(type, skill),
   timestamp |-> timestamp,
   characterType |-> getCharacterType(IF agent.agentRole = "" THEN "coder"
                                      ELSE agent.agentRole)]

\* new Map(prev.agents.map(a => [a.gkSessionId, a])).get(id): the last record
\* with that id, <<>> when there is none
prevAgentOf(prevAgents, id) ==
  LET same == SelectSeq(prevAgents, LAMBDA a : a.gkSessionId = id)
  IN IF same = <<>> THEN <<>> ELSE <<Last(same)>>

skillEvents(agent, skills, timestamp) ==
  [i \in 1..Len(skills) |-> createEvent("skill_activated", agent, timestamp, skills[i])]

\* a record with no previous record of its id
newAgentEvents(agent, timestamp) ==
  <<createEvent("received_work", agent, timestamp, NULL)>>
  \o (IF SkillsOf(agent) # <<>>
      THEN <<createEvent("skill_activated", agent, timestamp, SkillsOf(agent)[1])>>
      ELSE <<>>)

statusEvents_DeliverFirst(prevStatus, agent, timestamp) ==
  IF prevStatus = "active" /\ agent.status = "completed"
  THEN <<createEvent("delivering", agent, timestamp, NULL),
         createEvent("task_complete", agent, timestamp, NULL)>>
  ELSE <<>>

\* prevAgent.status === 'active' && agent.status === 'completed'
statusEvents(prevStatus, agent, timestamp) ==
  IF prevStatus = "active" /\ agent.status = "completed"
  THEN <<createEvent("task_complete", agent, timestamp, NULL),
         createEvent("delivering", agent, timestamp, NULL)>>
  ELSE <<>>

skillChangeEvents_AllCurrent(prevAgent, agent, timestamp) ==
  skillEvents(agent, SkillsOf(agent), timestamp)

\* currSkills.filter(s => !prevSkills.includes(s)), one event each
skillChangeEvents(prevAgent, agent, timestamp) ==
  LET prevSkills == SkillsOf(prevAgent)
      newSkills == SelectSeq(SkillsOf(agent), LAMBDA sk : sk \notin Range(prevSkills))
  IN skillEvents(agent, newSkills, timestamp)

diffAgent_RetroComplete(prevAgent, agent, timestamp) ==
  IF prevAgent = <<>>
  THEN newAgentEvents(agent, timestamp) \o statusEvents("active", agent, timestamp)
  ELSE statusEvents(prevAgent[1].status, agent, timestamp)
       \o skillChangeEvents(prevAgent[1], agent, timestamp)

diffAgent_SkillsFirst(prevAgent, agent, timestamp) ==
  IF prevAgent = <<>>
  THEN newAgentEvents(agent, timestamp)
  ELSE skillChangeEvents(prevAgent[1], agent, timestamp)
       \o statusEvents(prevAgent[1].status, agent, timestamp)

\* the body of the loop over curr.agents
diffAgent(prevAgent, agent, timestamp) ==
  IF prevAgent = <<>>
  THEN newAgentEvents(agent, timestamp)
  ELSE statusEvents(prevAgent[1].status, agent, timestamp)
       \o skillChangeEvents(prevAgent[1], agent, timestamp)

RECURSIVE diffAgents(_, _, _)
diffAgents(prevAgents, currAgents, timestamp) ==
  IF currAgents = <<>> THEN <<>>
  ELSE diffAgent(prevAgentOf(prevAgents, Head(currAgents).gkSessionId),
                 Head(currAgents), timestamp)
       \o diffAgents(prevAgents, Tail(currAgents), timestamp)

sessionCompleted_IgnoresPrev(prevAgents, currAgents) ==
  /\ \A i \in 1..Len(currAgents) : currAgents[i].status \in {"completed", "failed"}
  /\ Len(currAgents) > 0

\* allCompleted && wasActive && curr.agents.length > 0
sessionCompleted(prevAgents, currAgents) ==
  /\ \A i \in 1..Len(currAgents) : currAgents[i].status \in {"completed", "failed"}
  /\ \E i \in 1..Len(prevAgents) : prevAgents[i].status = "active"
  /\ Len(currAgents) > 0

\* prev.agents.map and the loop over curr.agents throw when the list is absent
diffSessions(prev, curr, timestamp) ==
  IF prev.agents = <<>> \/ curr.agents = <<>> THEN [threw |-> TRUE, events |-> <<>>]
  ELSE [threw |-> FALSE,
        events |->
          diffAgents(prev.agents[1], curr.agents[1], timestamp)
          \o (IF sessionCompleted(prev.agents[1], curr.agents[1])
              THEN <<[type |-> "session_complete", agentId |-> curr.gkSessionId,
                      targetAgentId |-> NULL, skill |-> NULL,
                      message |-> <<"All tasks completed">>,
                      timestamp |-> timestamp]>>
              ELSE <<>>)]

----------------------------------------------------------------------------
(* Event bus: OfficeEventEmitter (src/domains/agent-office/event-emitter.ts) *)

MAX_HISTORY_SIZE == 1000

StateListenerIds == {"sl1", "sl2"}

EventListenerIds == {"el1", "el2"}

\* new OfficeEventEmitter(initialState)
NewEmitter(initialState) ==
  [state |-> initialState, stateListeners |-> <<>>, eventListeners |-> <<>>,
   eventHistory |-> <<>>,
   seenStates |-> [l \in StateListenerIds |-> <<>>],
   seenEvents |-> [l \in EventListenerIds |-> <<>>],
   emitted |-> <<>>]

\* listener(payload): the listener is invoked (the ghost log records with what)
\* and its body may throw
invoke(seen, l, payload) ==
  [seen |-> [seen EXCEPT ![l] = Append(@, payload)], threw |-> l \in faulty]

\* for (const listener of listeners) { listener(payload) } with no handler:
\* the first throw ends the loop and leaves it
RECURSIVE notifyUnguarded(_, _, _)
notifyUnguarded(listeners, payload, seen) ==
  IF listeners = <<>> THEN [seen |-> seen, threw |-> FALSE]
  ELSE LET r == invoke(seen, Head(listeners), payload)
       IN IF r.threw THEN r
          ELSE notifyUnguarded(Tail(listeners), payload, r.seen)

\* for (const listener of listeners) { try { listener(payload) } catch { log } }
RECURSIVE notifyListeners(_, _, _)
notifyListeners(listeners, payload, seen) ==
  IF listeners = <<>> THEN [seen |-> seen, threw |-> FALSE]
  ELSE LET r == invoke(seen, Head(listeners), payload)
       IN notifyListeners(Tail(listeners), payload, r.seen)

onStateChange_NoInitialCall(b, l) ==
  [b |-> [b EXCEPT !.stateListeners = SetAdd(@, l)], threw |-> FALSE]

\* onStateChange(listener): add, invoke with the current state (no handler
\* around the call), return the unsubscribe handle
onStateChange(b, l) ==
  LET r == invoke(b.seenStates, l, b.state)
  IN [b |-> [b EXCEPT !.stateListeners = SetAdd(@, l), !.seenStates = r.seen],
      threw |-> r.threw]

onEvent(b, l) ==
  [b |-> [b EXCEPT !.eventListeners = SetAdd(@, l)], threw |-> FALSE]

\* the handles onStateChange and onEvent return
unsubscribeState(b, l) == [b EXCEPT !.stateListeners = SetDelete(@, l)]

unsubscribeEvent(b, l) == [b EXCEPT !.eventListeners = SetDelete(@, l)]

\* eventHistory.push(event); if (length > MAX_HISTORY_SIZE) eventHistory.shift()
emit_NoEvict(history, event) == Append(history, event)

emit_EvictNewest(history, event) ==
  LET pushed == Append(history, event)
  IN IF Len(pushed) > MAX_HISTORY_SIZE THEN SubSeq(pushed, 1, Len(pushed) - 1)
     ELSE pushed

pushHistory(history, event) ==
  LET pushed == Append(history, event)
  IN IF Len(pushed) > MAX_HISTORY_SIZE THEN Tail(pushed) ELSE pushed

\* an event listener is invoked with the event; the ghost log also keeps the
\* projection getState() returns at that moment
emit(b, event) ==
  LET n == notifyListeners(b.eventListeners, [event |-> event, view |-> b.state],
                           b.seenEvents)
  IN [b |-> [b EXCEPT !.eventHistory = pushHistory(@, event),
                      !.emitted = Append(@, event),
                      !.seenEvents = n.seen],
      threw |-> n.threw]

setState(b, newState) ==
  LET n == notifyListeners(b.stateListeners, newState, b.seenStates)
  IN [b |-> [b EXCEPT !.state = newState, !.seenStates = n.seen],
      threw |-> n.threw]

afterStateListener_Restores(b, listener, l, q) ==
  IF listener = l THEN [setState(b, q).b EXCEPT !.state = b.state] ELSE b

\* the body of a state listener has run: listener l calls setState(q) in its
\* body, the others return
afterStateListener(b, listener, l, q) ==
  IF listener = l THEN setState(b, q).b ELSE b

\* the loop of setState while listener l re-enters: each listener is handed
\* this.state as it is when its turn comes
RECURSIVE setStateNotify(_, _, _, _)
setStateNotify(b, listeners, l, q) ==
  IF listeners = <<>> THEN b
  ELSE setStateNotify(
         afterStateListener(
           [b EXCEPT !.seenStates = invoke(@, Head(listeners), b.state).seen],
           Head(listeners), l, q),
         Tail(listeners), l, q)

\* setState(p) while listener l, when notified by this call, calls setState(q)
setStateReentered(b, p, l, q) ==
  setStateNotify([b EXCEPT !.state = p], b.stateListeners, l, q)

\* the body of an event listener has run: listener l calls emit(e2) in its
\* body, the others return
afterEventListener(b, listener, l, e2) ==
  IF listener = l THEN emit(b, e2).b ELSE b

\* the loop of emit while listener l re-enters: each listener is handed the
\* event of the call
RECURSIVE emitNotify(_, _, _, _, _)
emitNotify(b, listeners, event, l, e2) ==
  IF listeners = <<>> THEN b
  ELSE emitNotify(
         afterEventListener(
           [b EXCEPT !.seenEvents =
              invoke(@, Head(listeners), [event |-> event, view |-> b.state]).seen],
           Head(listeners), l, e2),
         Tail(listeners), event, l, e2)

\* emit(event) while listener l, when notified by this call, calls emit(e2)
emitReentered(b, event, l, e2) ==
  emitNotify([b EXCEPT !.eventHistory = pushHistory(@, event),
                       !.emitted = Append(@, event)],
             b.eventListeners, event, l, e2)

getState(b) == b.state

getHistory(b) == b.eventHistory

replay_Strict(b, fromTimestamp) ==
  SelectSeq(b.eventHistory, LAMBDA e : e.timestamp > fromTimestamp)

\* this.eventHistory.filter(e => e.timestamp >= fromTimestamp)
replay(b, fromTimestamp) ==
  SelectSeq(b.eventHistory, LAMBDA e : e.timestamp >= fromTimestamp)

dispose_KeepsListeners(b) == [b EXCEPT !.eventHistory = <<>>, !.emitted = <<>>]

\* stateListeners.clear(); eventListeners.clear(); eventHistory = []
dispose(b) ==
  [b EXCEPT !.stateListeners = <<>>, !.eventListeners = <<>>,
            !.eventHistory = <<>>, !.emitted = <<>>]

\* what a call leaves behind for its caller
Call(op, arg, threw, ret) == [op |-> op, arg |-> arg, threw |-> threw, ret |-> ret]

----------------------------------------------------------------------------
(* Change watcher: SessionFileWatcher (src/domains/agent-office/file-watcher.ts)
   wired as its three callers wire it (renderer/web.ts, commands/office/index.ts).
   The operators work on a record W of what one operation can change: the
   watcher, the bus, whether the process is alive, and the log of the operation. *)

POLL_INTERVAL_MS == 200

\* Date.now() at the t-th timer tick, counted from start()
Now(t) == t * POLL_INTERVAL_MS

logAdd(W, entry) == [W EXCEPT !.log = Append(@, entry)]

\* if (this.pollInterval) { clearInterval(this.pollInterval); this.pollInterval = null }
stop(W) == logAdd([W EXCEPT !.watcher.pollInterval = FALSE], [cb |-> "stop"])

\* scanPlanDocuments(join(getPlansDir(), plan)): the documents of the plan folder
scanPlanDocuments(plan) == <<[name |-> "plan.md", type |-> "plan"]>>

\* if (state.activePlan) state.documents = scanPlanDocuments(...)
withDocuments(m) ==
  IF ~m.threw /\ m.state.activePlan \notin {NULL, UNDEFINED, ""}
  THEN [m EXCEPT !.state.documents = scanPlanDocuments(m.state.activePlan)]
  ELSE m

\* the projection the callers compute for a snapshot
dashboardState(session, now) == withDocuments(sessionToOfficeState(<<session>>, now))

\* what the caller's onSessionChange does with the projection m it computed
sessionChanged(W, m) ==
  IF m.threw THEN [w |-> W, threw |-> TRUE]
  ELSE CASE wiring = "dashboard" ->
              [w |-> [W EXCEPT !.emitter = setState(@, m.state).b],
               threw |-> setState(W.emitter, m.state).threw]
         [] wiring = "status" ->
              \* prints, then watcher.stop(); emitter.dispose()
              [w |-> [stop(W) EXCEPT !.emitter = dispose(@)], threw |-> FALSE]
         [] OTHER -> [w |-> W, threw |-> FALSE]

\* options.onSessionChange(session)
onSessionChangeCb(W, session, now) ==
  sessionChanged(logAdd(W, [cb |-> "onSessionChange", session |-> session, now |-> now]),
                 dashboardState(session, now))

\* options.onEvent(event); the log keeps the projection the bus holds at the call
onEventCb(W, event, session, now) ==
  LET W1 == logAdd(W, [cb |-> "onEvent", event |-> event, session |-> session,
                       now |-> now, view |-> getState(W.emitter)])
  IN IF wiring = "dashboard"
     THEN [w |-> [W1 EXCEPT !.emitter = emit(@, event).b],
           threw |-> emit(W.emitter, event).threw]
     ELSE [w |-> W1, threw |-> FALSE]

\* options.onError(error): handleStatus exits the process, the others log
onErrorCb(W, why) ==
  [W EXCEPT !.log = Append(@, [cb |-> "onError", why |-> why]),
            !.alive = IF wiring = "status" THEN FALSE ELSE @]

\* for (const event of events) this.options.onEvent(event), after a step r; an
\* exception ends the loop
RECURSIVE emitEvents(_, _, _, _)
emitEvents(r, events, session, now) ==
  IF r.threw \/ events = <<>> THEN r
  ELSE emitEvents(onEventCb(r.w, Head(events), session, now), Tail(events), session, now)

\* onSessionChange(session) after a step r, unless that step threw
thenSessionChange(r, session, now) ==
  IF r.threw THEN r ELSE onSessionChangeCb(r.w, session, now)

publish_EventsFirst(W, session, events, now) ==
  thenSessionChange(emitEvents([w |-> W, threw |-> FALSE], events, session, now),
                    session, now)

\* onSessionChange(session), then onEvent for each event of the diff
publish(W, session, events, now) ==
  emitEvents(onSessionChangeCb(W, session, now), events, session, now)

\* the catch block of loadSession after the callbacks: r is how they ended
published(r) ==
  IF r.threw THEN [w |-> onErrorCb(r.w, "callback"), outcome |-> "callback"]
  ELSE [w |-> r.w, outcome |-> "ok"]

\* loadSession() once the file is parsed: d is the diff against previousSession
loadParsed(W, session, d, now) ==
  IF d.threw THEN [w |-> onErrorCb(W, "diff"), outcome |-> "diff"]
  ELSE published(publish([W EXCEPT !.watcher.previousSession = <<session>>],
                         session, d.events, now))

loadSession_DiffsFirstLoad(W, readOk, now) ==
  IF ~W.watcher.sessionPath THEN [w |-> W, outcome |-> "nopath"]
  ELSE IF ~readOk \/ ~file.exists
       THEN [w |-> onErrorCb(W, "read"), outcome |-> "read"]
  ELSE IF file.content.kind = "malformed"
       THEN [w |-> onErrorCb(W, "parse"), outcome |-> "parse"]
  ELSE loadParsed(W, file.content.session,
                  IF W.watcher.previousSession # <<>>
                  THEN diffSessions(W.watcher.previousSession[1], file.content.session, now)
                  ELSE diffSessions(GkSession(<<<<>>>>), file.content.session, now),
                  now)

loadSession_ForgetsOnFailure(W, readOk, now) ==
  IF ~W.watcher.sessionPath THEN [w |-> W, outcome |-> "nopath"]
  ELSE IF ~readOk \/ ~file.exists
       THEN [w |-> onErrorCb([W EXCEPT !.watcher.previousSession = <<>>], "read"),
             outcome |-> "read"]
  ELSE IF file.content.kind = "malformed"
       THEN [w |-> onErrorCb([W EXCEPT !.watcher.previousSession = <<>>], "parse"),
             outcome |-> "parse"]
  ELSE loadParsed(W, file.content.session,
                  IF W.watcher.previousSession # <<>>
                  THEN diffSessions(W.watcher.previousSession[1], file.content.session, now)
                  ELSE [threw |-> FALSE, events |-> <<>>],
                  now)

\* loadSession(); readOk: whether readFileSync succeeds. The outcome names where
\* the try block ended: "ok", or the step that threw
loadSession(W, readOk, now) ==
  IF ~W.watcher.sessionPath THEN [w |-> W, outcome |-> "nopath"]
  ELSE IF ~readOk \/ ~file.exists
       THEN [w |-> onErrorCb(W, "read"), outcome |-> "read"]
  ELSE IF file.content.kind = "malformed"
       THEN [w |-> onErrorCb(W, "parse"), outcome |-> "parse"]
  ELSE loadParsed(W, file.content.session,
                  IF W.watcher.previousSession # <<>>
                  THEN diffSessions(W.watcher.previousSession[1], file.content.session, now)
                  ELSE [threw |-> FALSE, events |-> <<>>],
                  now)

checkForChanges_NotOlder(W, statOk, readOk, now) ==
  IF ~W.watcher.sessionPath
  THEN [w |-> W, stat |-> FALSE, loaded |-> FALSE, outcome |-> "nopath"]
  ELSE IF ~statOk \/ ~file.exists
  THEN [w |-> logAdd(W, [cb |-> "poll"]), stat |-> FALSE, loaded |-> FALSE,
        outcome |-> "stat"]
  ELSE IF file.mtime >= W.watcher.previousMtime
  THEN loadSession([W EXCEPT !.log = Append(@, [cb |-> "poll"]),
                             !.watcher.previousMtime = file.mtime], readOk, now)
       @@ [stat |-> TRUE, loaded |-> TRUE]
  ELSE [w |-> logAdd(W, [cb |-> "poll"]), stat |-> TRUE, loaded |-> FALSE,
        outcome |-> "unchanged"]

\* checkForChanges(); statOk: whether statSync succeeds
checkForChanges(W, statOk, readOk, now) ==
  IF ~W.watcher.sessionPath
  THEN [w |-> W, stat |-> FALSE, loaded |-> FALSE, outcome |-> "nopath"]
  ELSE IF ~statOk \/ ~file.exists
  THEN [w |-> logAdd(W, [cb |-> "poll"]), stat |-> FALSE, loaded |-> FALSE,
        outcome |-> "stat"]
  ELSE IF file.mtime > W.watcher.previousMtime
  THEN loadSession([W EXCEPT !.log = Append(@, [cb |-> "poll"]),
                             !.watcher.previousMtime = file.mtime], readOk, now)
       @@ [stat |-> TRUE, loaded |-> TRUE]
  ELSE [w |-> logAdd(W, [cb |-> "poll"]), stat |-> TRUE, loaded |-> FALSE,
        outcome |-> "unchanged"]

\* this.pollInterval = setInterval(...); return true: the end of start() after
\* the initial load r, not reached if a callback has ended the process
arm(r) ==
  IF r.w.alive THEN [w |-> [r.w EXCEPT !.watcher.pollInterval = TRUE], ret |-> TRUE]
  ELSE [w |-> r.w, ret |-> FALSE]

start_NoFileCheck(W, statOk, readOk, now) ==
  IF ~env THEN [w |-> onErrorCb(W, "nosession"), ret |-> FALSE]
  ELSE arm(loadSession([W EXCEPT !.watcher.sessionPath = TRUE,
                                 !.watcher.previousMtime = IF statOk THEN file.mtime ELSE @],
                       readOk, now))

\* start()
start(W, statOk, readOk, now) ==
  IF ~env THEN [w |-> onErrorCb(W, "nosession"), ret |-> FALSE]
  ELSE IF ~file.exists
  THEN [w |-> onErrorCb([W EXCEPT !.watcher.sessionPath = TRUE], "nofile"), ret |-> FALSE]
  ELSE arm(loadSession([W EXCEPT !.watcher.sessionPath = TRUE,
                                 !.watcher.previousMtime = IF statOk THEN file.mtime ELSE @],
                       readOk, now))

NewWatcher ==
  [pollInterval |-> FALSE, previousSession |-> <<>>, previousMtime |-> 0,
   sessionPath |-> FALSE]

----------------------------------------------------------------------------
(* Broadcast server: OfficeWebServer
   (src/domains/agent-office/renderer/web/server.ts) *)

\* the port WebDashboard and the tests configure
ConfiguredPort == 3847

maxAttempts == 10

SocketIds == {"c1", "c2"}

\* the listeners start() subscribes to the bus
ServerStateListener == "sl2"

ServerEventListener == "el2"

NewServer == [server |-> FALSE, wss |-> FALSE, clients |-> <<>>]

NewSocket == [readyState |-> "NONE", sendThrows |-> FALSE, sent |-> <<>>]

\* this.server.listen(port, host, ...): the 'listening' callback or the code of
\* the 'error' event
listen(port) ==
  IF port < ConfiguredPort + portsInUse THEN "EADDRINUSE" ELSE portAfter

\* tryStart() and its 'error' handler; binds counts the listen() calls
RECURSIVE tryStart(_, _, _)
tryStart(port, attempts, binds) ==
  IF listen(port) = "listening"
  THEN [state |-> "resolved", port |-> port, binds |-> binds + 1]
  ELSE IF listen(port) = "EADDRINUSE" /\ attempts < maxAttempts
  THEN tryStart(port + 1, attempts + 1, binds + 1)
  ELSE [state |-> "rejected", port |-> port, binds |-> binds + 1]

\* serializeState: the agents Map becomes an object keyed by id
serializeState(state) ==
  [state EXCEPT !.agents = [id \in DOMAIN state.agents |-> state.agents[id]]]

StateFrame(state) == [type |-> "state", data |-> serializeState(state)]

EventFrame(event) == [type |-> "event", data |-> event]

\* try { ws.send(message) } catch (e) { }
trySend(sock, frame) ==
  IF sock.sendThrows THEN sock ELSE [sock EXCEPT !.sent = Append(@, frame)]

connection_NoGreeting(socks, c, state) ==
  [socks EXCEPT ![c] = [NewSocket EXCEPT !.readyState = "OPEN",
                                          !.sendThrows = socks[c].sendThrows]]

\* the 'connection' handler for socket c, after clients.add: the current state
\* is sent at once
connection(socks, c, state) ==
  [socks EXCEPT ![c] = trySend([NewSocket EXCEPT !.readyState = "OPEN",
                                                 !.sendThrows = socks[c].sendThrows],
                               StateFrame(state))]

\* the loop of broadcastState / broadcastEvent with no handler around send:
\* the first throw leaves it
RECURSIVE broadcast_Unguarded(_, _, _)
broadcast_Unguarded(socks, clients, frame) ==
  IF clients = <<>> THEN socks
  ELSE IF socks[Head(clients)].readyState = "OPEN" /\ socks[Head(clients)].sendThrows
  THEN socks
  ELSE broadcast_Unguarded(
         [socks EXCEPT ![Head(clients)] =
            IF @.readyState = "OPEN" THEN trySend(@, frame) ELSE @],
         Tail(clients), frame)

\* for (const client of this.clients)
\*   if (client.readyState === WebSocket.OPEN) try { client.send(message) } catch {}
RECURSIVE broadcast(_, _, _)
broadcast(socks, clients, frame) ==
  IF clients = <<>> THEN socks
  ELSE broadcast([socks EXCEPT ![Head(clients)] =
                    IF @.readyState = "OPEN" THEN trySend(@, frame) ELSE @],
                 Tail(clients), frame)

broadcastState(socks, clients, state) == broadcast(socks, clients, StateFrame(state))

broadcastEvent(socks, clients, event) == broadcast(socks, clients, EventFrame(event))

\* the 'message' handler of a socket: a pong for a ping, the events since
\* fromTimestamp for a replay, nothing for anything else (the parse error and
\* a failed send are swallowed); <<>> when no frame is sent
messageReply(b, msg) ==
  IF msg.type = "ping" THEN <<[type |-> "pong", data |-> <<>>]>>
  ELSE IF msg.type = "replay"
  THEN <<[type |-> "replay", data |-> replay(b, msg.fromTimestamp)]>>
  ELSE <<>>

\* JSON.parse(data.toString()) followed by msg.type: a text that is no JSON
\* makes parse throw, the text null parses to null and makes msg.type throw
parseMessage(data) ==
  CASE data = "{\"type\":\"ping\"}" ->
         [threw |-> FALSE, msg |-> [type |-> "ping", fromTimestamp |-> 0]]
    [] data = "{\"type\":\"subscribe\"}" ->
         [threw |-> FALSE, msg |-> [type |-> "subscribe", fromTimestamp |-> 0]]
    [] data = "{}" ->
         [threw |-> FALSE, msg |-> [type |-> UNDEFINED, fromTimestamp |-> 0]]
    [] OTHER -> [threw |-> TRUE, msg |-> [type |-> UNDEFINED, fromTimestamp |-> 0]]

onMessage_ClosesOnInvalid(b, sock, data) ==
  IF parseMessage(data).threw THEN [sock EXCEPT !.readyState = "CLOSED"]
  ELSE IF messageReply(b, parseMessage(data).msg) = <<>> THEN sock
  ELSE trySend(sock, messageReply(b, parseMessage(data).msg)[1])

\* ws.on('message'): the whole handler, for the socket the message came on
onMessage(b, sock, data) ==
  IF parseMessage(data).threw THEN sock
  ELSE IF messageReply(b, parseMessage(data).msg) = <<>> THEN sock
  ELSE trySend(sock, messageReply(b, parseMessage(data).msg)[1])

\* the calls the bus made of a listener since its log was `before`
callsSince(before, after) == SubSeq(after, Len(before) + 1, Len(after))

\* the server's state listener, run for each call the bus made of it
RECURSIVE hearStates(_, _, _)
hearStates(socks, clients, calls) ==
  IF calls = <<>> THEN socks
  ELSE hearStates(broadcastState(socks, clients, Head(calls)), clients, Tail(calls))

\* the server's event listener, run for each call the bus made of it
RECURSIVE hearEvents(_, _, _)
hearEvents(socks, clients, calls) ==
  IF calls = <<>> THEN socks
  ELSE hearEvents(broadcastEvent(socks, clients, Head(calls).event), clients, Tail(calls))

\* client.close() on every socket of clients
RECURSIVE closeAll(_, _)
closeAll(socks, clients) ==
  IF clients = <<>> THEN socks
  ELSE closeAll([socks EXCEPT ![Head(clients)].readyState = "CLOSED"], Tail(clients))

stopServer_KeepsClients(srv, socks) ==
  [server |-> [srv EXCEPT !.server = FALSE, !.wss = FALSE], sockets |-> socks]

\* OfficeWebServer.stop(): the sockets are closed and wss dropped if there is a
\* wss, the listener is closed and dropped if there is one, clients is cleared
stopServer(srv, socks) ==
  [server |-> [server |-> FALSE, wss |-> FALSE, clients |-> <<>>],
   sockets |-> IF srv.wss THEN closeAll(socks, srv.clients) ELSE socks]

\* existsSync on the path of an open-doc request: the files that exist
ExistingFiles == {<<"plan.md">>, <<"..", "secret.md">>}

\* handleRequest(req, res): the status written, and whether the file system or
\* an editor process was touched on the way; a URL is its path segments and
\* <<the path parameter of its query>>; execOk: the editor command succeeded
handleRequest(url, execOk) ==
  IF url.path = <<"api", "state">> /\ url.query = <<>>
  THEN [status |-> 200, fs |-> FALSE, body |-> "state"]
  ELSE IF url.path = <<"api", "history">> /\ url.query = <<>>
  THEN [status |-> 200, fs |-> FALSE, body |-> "history"]
  ELSE IF Len(url.path) >= 2 /\ SubSeq(url.path, 1, 2) = <<"api", "open-doc">>
  THEN IF url.query = <<>> \/ url.query[1] = <<>>
       THEN [status |-> 400, fs |-> FALSE, body |-> "No path provided"]
       ELSE IF url.query[1] \notin ExistingFiles
       THEN [status |-> 404, fs |-> TRUE, body |-> "File not found"]
       ELSE [status |-> IF execOk THEN 200 ELSE 500, fs |-> TRUE, body |-> "open-doc"]
  ELSE IF url.path = <<>> \/ url.path = <<"index.html">>
  THEN [status |-> 200, fs |-> FALSE, body |-> "html"]
  ELSE [status |-> 404, fs |-> FALSE, body |-> "Not Found"]

----------------------------------------------------------------------------
(* SpecHist: one bus without listeners, driven as the history test drives it *)

\* the i-th event the test emits: message `msg ${i}`, one clock tick per emit
TestEvent(i) ==
  [type |-> "agent_working", agentId |-> "a", targetAgentId |-> NULL,
   skill |-> NULL, message |-> <<"msg", i>>, timestamp |-> i]

HistProjections ==
  {createInitialState, sessionToOfficeState(<<GkSession(<<<<>>>>)>>, 0).state}

ReplayFrom == {0, MaxEmits - 50}

InitBus ==
  /\ emitter = NewEmitter(createInitialState)
  /\ busCalls = 0
  /\ lastOp = Call("new", <<>>, FALSE, <<>>)

\* the diff engine is not called
DiffIdle ==
  /\ dPrev = <<>>
  /\ dCurr = <<>>
  /\ dResult = <<>>
  /\ dAgain = <<>>
  /\ dNow = <<>>

\* neither transitionAgent nor sessionToOfficeState is called on its own
FnIdle ==
  /\ tAgent = <<>>
  /\ tEvent = <<>>
  /\ tResult = <<>>
  /\ mSession = <<>>
  /\ mNow = <<>>
  /\ mResult = <<>>
  /\ mAgain = <<>>

\* no projection object is shared
ShareIdle ==
  /\ heap = NoObjects
  /\ held = {}
  /\ pubLog = <<>>

\* no music player runs
LockIdle ==
  /\ lockFile = <<>>
  /\ lockClock = 0
  /\ players = <<>>

\* no server is built
ServerIdle ==
  /\ server = NewServer
  /\ startPromise = [state |-> "none", port |-> 0, binds |-> 0]
  /\ portsInUse = 0
  /\ portAfter = "listening"
  /\ sockets = [c \in SocketIds |-> NewSocket]
  /\ due = [c \in SocketIds |-> <<>>]
  /\ connectedWith = [c \in SocketIds |-> <<>>]
  /\ lastRequest = <<>>
  /\ lastResponse = <<>>

\* no watcher is built
WatchIdle ==
  /\ wiring = "none"
  /\ env = FALSE
  /\ file = [exists |-> FALSE, content |-> [kind |-> "malformed"], mtime |-> 0]
  /\ watcher = NewWatcher
  /\ alive = TRUE
  /\ startResult = "none"
  /\ ticks = 0
  /\ writes = 0
  /\ opLog = <<>>
  /\ stopCalled = FALSE
  /\ stoppedBefore = FALSE
  /\ lastPoll = <<>>
  /\ prevPoll = <<>>

InitHist ==
  /\ InitBus
  /\ faulty = {}
  /\ DiffIdle
  /\ WatchIdle
  /\ FnIdle
  /\ ServerIdle
  /\ LockIdle
  /\ ShareIdle

\* for (let i = 0; i < k; i++) emitter.emit(...): k emits in a row
RECURSIVE EmitLoop(_, _)
EmitLoop(b, k) ==
  IF k = 0 \/ Len(b.emitted) >= MaxEmits THEN b
  ELSE EmitLoop(emit(b, TestEvent(Len(b.emitted) + 1)).b, k - 1)

Bursts == {1, 25}

HEmit ==
  \E k \in Bursts :
    /\ Len(emitter.emitted) + k <= MaxEmits
    /\ emitter' = EmitLoop(emitter, k)
    /\ lastOp' = Call("emit", <<>>, FALSE, <<>>)
    /\ UNCHANGED <<faulty, busCalls>>

HSetState ==
  \E p \in HistProjections :
    /\ LET r == setState(emitter, p)
       IN /\ emitter' = r.b
          /\ lastOp' = Call("setState", <<>>, r.threw, <<>>)
    /\ UNCHANGED <<faulty, busCalls>>

HReplay ==
  \E t \in ReplayFrom :
    /\ lastOp' = Call("replay", <<t>>, FALSE, replay(emitter, t))
    /\ UNCHANGED <<emitter, faulty, busCalls>>

HDispose ==
  /\ emitter' = dispose(emitter)
  /\ lastOp' = Call("dispose", <<>>, FALSE, <<>>)
  /\ UNCHANGED <<faulty, busCalls>>

NextHist ==
  (HEmit \/ HSetState \/ HReplay \/ HDispose)
  /\ UNCHANGED <<diffVars, watchVars, fnVars, srvVars, shareVars, lockVars>>

SpecHist == InitHist /\ [][NextHist]_vars

----------------------------------------------------------------------------
(* SpecBus: one bus, its subscribers (some of which throw) and its callers *)

\* the listeners that may throw: one per channel (the other one never does, and
\* either may subscribe first)
MayThrow == {"sl1", "el1"}

InitBusSpec ==
  /\ InitBus
  /\ faulty \in SUBSET MayThrow
  /\ DiffIdle
  /\ WatchIdle
  /\ FnIdle
  /\ ServerIdle
  /\ LockIdle
  /\ ShareIdle

OnStateChange(l) ==
  /\ busCalls < MaxBusCalls
  /\ LET r == onStateChange(emitter, l)
     IN /\ emitter' = r.b
        /\ lastOp' = Call("onStateChange", <<l>>, r.threw, <<>>)
  /\ busCalls' = busCalls + 1
  /\ UNCHANGED faulty

OnEvent(l) ==
  /\ LET r == onEvent(emitter, l)
     IN /\ emitter' = r.b
        /\ lastOp' = Call("onEvent", <<l>>, r.threw, <<>>)
  /\ UNCHANGED <<faulty, busCalls>>

\* a caller invokes a handle it holds: the listener is registered
UnsubscribeState(l) ==
  /\ l \in Range(emitter.stateListeners)
  /\ emitter' = unsubscribeState(emitter, l)
  /\ lastOp' = Call("unsubscribeState", <<l>>, FALSE, <<>>)
  /\ UNCHANGED <<faulty, busCalls>>

UnsubscribeEvent(l) ==
  /\ l \in Range(emitter.eventListeners)
  /\ emitter' = unsubscribeEvent(emitter, l)
  /\ lastOp' = Call("unsubscribeEvent", <<l>>, FALSE, <<>>)
  /\ UNCHANGED <<faulty, busCalls>>

SetState(p) ==
  /\ busCalls < MaxBusCalls
  /\ LET r == setState(emitter, p)
     IN /\ emitter' = r.b
        /\ lastOp' = Call("setState", <<p>>, r.threw, <<>>)
  /\ busCalls' = busCalls + 1
  /\ UNCHANGED faulty

\* each emitted event is a new one
Emit ==
  /\ busCalls < MaxBusCalls
  /\ LET e == TestEvent(busCalls + 1)
         r == emit(emitter, e)
     IN /\ emitter' = r.b
        /\ lastOp' = Call("emit", <<e>>, r.threw, <<>>)
  /\ busCalls' = busCalls + 1
  /\ UNCHANGED faulty

Dispose ==
  /\ emitter' = dispose(emitter)
  /\ lastOp' = Call("dispose", <<>>, FALSE, <<>>)
  /\ UNCHANGED <<faulty, busCalls>>

BusStep ==
  \/ \E l \in StateListenerIds : OnStateChange(l)
  \/ \E l \in EventListenerIds : OnEvent(l)
  \/ \E l \in StateListenerIds : UnsubscribeState(l)
  \/ \E l \in EventListenerIds : UnsubscribeEvent(l)
  \/ \E p \in HistProjections : SetState(p)
  \/ Emit
  \/ Dispose

NextBus == BusStep /\ UNCHANGED <<diffVars, watchVars, fnVars, srvVars, shareVars, lockVars>>

SpecBus == InitBusSpec /\ [][NextBus]_vars

----------------------------------------------------------------------------
(* SpecReenter: listeners subscribe in either order, and the bus is published
   to by callers and by listeners that publish again from inside a
   notification.  No listener throws. *)

\* the i-th projection handed to setState: each is a new one
NthProjection(i) ==
  sessionToOfficeState(
    <<GkSession(<<<<GkAgent("a1", NULL, "Main Agent", "active", <<>>)>>>>)>>,
    30000 * i).state

InitReenter ==
  /\ InitBus
  /\ faulty = {}
  /\ DiffIdle
  /\ WatchIdle
  /\ FnIdle
  /\ ServerIdle
  /\ LockIdle
  /\ ShareIdle

\* onStateChange(l) for a listener that is not registered
SubscribeState(l) ==
  /\ l \notin Range(emitter.stateListeners)
  /\ emitter' = onStateChange(emitter, l).b
  /\ lastOp' = Call("onStateChange", <<l>>, FALSE, <<>>)
  /\ UNCHANGED <<faulty, busCalls>>

\* setState by a caller; no listener re-enters
PlainSetState ==
  /\ busCalls < MaxBusCalls
  /\ emitter' = setState(emitter, NthProjection(busCalls + 1)).b
  /\ lastOp' = Call("setState", <<busCalls + 1>>, FALSE, <<>>)
  /\ busCalls' = busCalls + 1
  /\ UNCHANGED faulty

\* setState by a caller; registered listener l answers with a setState of the
\* next projection
ReenteredSetState(l) ==
  /\ busCalls + 1 < MaxBusCalls
  /\ l \in Range(emitter.stateListeners)
  /\ emitter' = setStateReentered(emitter, NthProjection(busCalls + 1), l,
                                  NthProjection(busCalls + 2))
  /\ lastOp' = Call("setState", <<busCalls + 1, l, busCalls + 2>>, FALSE, <<>>)
  /\ busCalls' = busCalls + 2
  /\ UNCHANGED faulty

\* emit by a caller; registered listener l answers with an emit of the next
\* event
ReenteredEmit(l) ==
  /\ busCalls + 1 < MaxBusCalls
  /\ l \in Range(emitter.eventListeners)
  /\ emitter' = emitReentered(emitter, TestEvent(busCalls + 1), l,
                              TestEvent(busCalls + 2))
  /\ lastOp' = Call("emit", <<busCalls + 1, l, busCalls + 2>>, FALSE, <<>>)
  /\ busCalls' = busCalls + 2
  /\ UNCHANGED faulty

NextReenter ==
  (\/ \E l \in StateListenerIds : SubscribeState(l)
   \/ \E l \in EventListenerIds : OnEvent(l)
   \/ \E l \in EventListenerIds : UnsubscribeEvent(l)
   \/ PlainSetState
   \/ Emit
   \/ \E l \in StateListenerIds : ReenteredSetState(l)
   \/ \E l \in EventListenerIds : ReenteredEmit(l))
  /\ UNCHANGED <<diffVars, watchVars, fnVars, srvVars, shareVars, lockVars>>

SpecReenter == InitReenter /\ [][NextReenter]_vars

----------------------------------------------------------------------------
(* SpecDiff: diffSessions applied to every pair of well-formed snapshots *)

\* the root record, which carries no injected skills
RootRecords == {GkAgent("a1", NULL, "Main Agent", st, <<>>) : st \in Statuses}

\* a sub-agent record with an injected skills list (repeats allowed)
SubRecords ==
  {GkAgent("a2", "a1", "Sub Agent", st, <<sk>>) :
     st \in Statuses, sk \in SeqsUpTo(SkillNames, MaxSkills)}

\* agent lists with unique ids (addAgent updates a record in place), either order
AgentLists ==
  {<<>>} \cup {<<r>> : r \in RootRecords} \cup {<<a>> : a \in SubRecords}
  \cup {<<r, a>> : r \in RootRecords, a \in SubRecords}
  \cup {<<a, r>> : r \in RootRecords, a \in SubRecords}

DiffSnapshots == {GkSession(<<l>>) : l \in AgentLists}

DiffTimes == {1, 2}

InitDiff ==
  /\ InitBus
  /\ faulty = {}
  /\ dPrev \in {<<p>> : p \in DiffSnapshots}
  /\ dCurr \in {<<c>> : c \in DiffSnapshots}
  /\ dResult = <<>>
  /\ dAgain = <<>>
  /\ dNow = <<>>
  /\ WatchIdle
  /\ FnIdle
  /\ ServerIdle
  /\ LockIdle
  /\ ShareIdle

Diff ==
  /\ dResult = <<>>
  /\ \E now \in DiffTimes :
       /\ dResult' = <<diffSessions(dPrev[1], dCurr[1], now)>>
       /\ dNow' = <<now>>
  /\ UNCHANGED <<dPrev, dCurr, dAgain, busVars, watchVars>>

\* the same call once more; the clock has not gone back
DiffAgain ==
  /\ dResult # <<>>
  /\ dAgain = <<>>
  /\ \E now \in DiffTimes :
       /\ now >= dNow[1]
       /\ dAgain' = <<diffSessions(dPrev[1], dCurr[1], now)>>
       /\ dNow' = Append(dNow, now)
  /\ UNCHANGED <<dPrev, dCurr, dResult, busVars, watchVars>>

NextDiff == (Diff \/ DiffAgain) /\ UNCHANGED <<fnVars, srvVars, shareVars, lockVars>>

SpecDiff == InitDiff /\ [][NextDiff]_vars

----------------------------------------------------------------------------
(* SpecWatch: one watcher, built by one of its callers, polling a session file
   that other processes rewrite *)

Root(st) == GkAgent("a1", NULL, "Main Agent", st, <<>>)

Sub(st, skills) == GkAgent("a2", "a1", "Sub Agent", st, <<skills>>)

\* what the file may hold: a session in one of a few stages of its life, a
\* session object without its agents list, or text that does not parse
WatchContents ==
  {[kind |-> "session", session |-> GkSession(<<l>>)] :
     l \in {<<Root("active")>>,
            <<Root("active"), Sub("active", <<"s1">>)>>,
            <<Root("active"), Sub("completed", <<"s1">>)>>,
            <<Root("completed"), Sub("completed", <<"s1", "s2">>)>>}}
  \cup {[kind |-> "session", session |-> GkSession(<<>>)], [kind |-> "malformed"]}

\* how the file system answers one operation: all calls succeed, statSync
\* throws, or readFileSync throws
IoOutcomes == {"ok", "statFails", "readFails"}

InitWatch ==
  /\ InitBus
  /\ faulty = {}
  /\ DiffIdle
  /\ wiring \in {"dashboard", "status", "watch"}
  /\ env \in BOOLEAN
  /\ file \in {[exists |-> FALSE, content |-> [kind |-> "malformed"], mtime |-> 0]}
              \cup {[exists |-> TRUE, content |-> c, mtime |-> 1] : c \in WatchContents}
  /\ watcher = NewWatcher
  /\ alive = TRUE
  /\ startResult = "none"
  /\ ticks = 0
  /\ writes = 0
  /\ opLog = <<>>
  /\ stopCalled = FALSE
  /\ stoppedBefore = FALSE
  /\ lastPoll = <<>>
  /\ prevPoll = <<>>
  /\ FnIdle
  /\ ServerIdle
  /\ LockIdle
  /\ ShareIdle

World == [watcher |-> watcher, emitter |-> emitter, alive |-> alive, log |-> <<>>]

\* what an operation of the watcher leaves behind
Leaves(W) ==
  /\ watcher' = W.watcher
  /\ emitter' = W.emitter
  /\ alive' = W.alive
  /\ opLog' = W.log
  /\ stoppedBefore' = stopCalled
  /\ stopCalled' = (stopCalled \/ \E i \in 1..Len(W.log) : W.log[i].cb = "stop")

\* the caller builds the watcher and starts it, once
Start ==
  /\ startResult = "none"
  /\ alive
  /\ \E io \in IoOutcomes :
       \E r \in {start(World, io # "statFails", io # "readFails", Now(0))} :
          /\ Leaves(r.w)
          /\ startResult' = IF r.ret THEN "true" ELSE "false"
  /\ UNCHANGED <<faulty, busCalls, lastOp, diffVars, wiring, env, file, ticks,
                 writes, lastPoll, prevPoll>>

\* the interval timer fires
Tick ==
  /\ watcher.pollInterval
  /\ alive
  /\ ticks < MaxTicks
  /\ \E io \in IoOutcomes :
       \E r \in {checkForChanges(World, io # "statFails", io # "readFails", Now(ticks + 1))} :
          /\ Leaves(r.w)
          /\ lastPoll' = <<[stat |-> r.stat, loaded |-> r.loaded, outcome |-> r.outcome]>>
  /\ prevPoll' = lastPoll
  /\ ticks' = ticks + 1
  /\ UNCHANGED <<faulty, busCalls, lastOp, diffVars, wiring, env, file,
                 startResult, writes>>

\* the owner stops what it started: WebDashboard.stop and handleWatch's SIGINT
\* handler call watcher.stop() and then emitter.dispose(); the handler then
\* exits the process
Stop ==
  /\ startResult = "true"
  /\ alive
  /\ wiring # "status"
  /\ Leaves([stop(World) EXCEPT !.emitter = dispose(@), !.alive = (wiring # "watch")])
  /\ UNCHANGED <<faulty, busCalls, lastOp, diffVars, wiring, env, file,
                 startResult, ticks, writes, lastPoll, prevPoll>>

\* another process rewrites the session file; its modification time advances
Write ==
  /\ writes < MaxWrites
  /\ \E c \in WatchContents :
       file' = [exists |-> TRUE, content |-> c, mtime |-> file.mtime + 1]
  /\ writes' = writes + 1
  /\ UNCHANGED <<busVars, diffVars, wiring, env, watcher, alive, startResult,
                 ticks, opLog, stopCalled, stoppedBefore, lastPoll, prevPoll>>

NextWatch == (Start \/ Tick \/ Stop \/ Write) /\ UNCHANGED <<fnVars, srvVars, shareVars, lockVars>>

SpecWatch == InitWatch /\ [][NextWatch]_vars

----------------------------------------------------------------------------
(* SpecMachine: transitionAgent applied once to an agent view and an event *)

\* agent views: the view of a sub-agent in each state, with and without an
\* active skill, highlight and speech bubble
MachineAgents ==
  {[agentToOfficeAgent(Sub("active", <<"s1">>), GkSession(<<<<>>>>), 0) EXCEPT
      !.state = st, !.activeSkill = sk, !.hasFireEffect = fire, !.speechBubble = sb] :
     st \in AgentStates, sk \in {NULL, "s1"}, fire \in BOOLEAN,
     sb \in {<<>>, <<<<"Working on", "s1">>>>}}

\* events of every type, with and without a skill, with the message
\* createEvent gives them or an empty one
MachineEvents ==
  {[type |-> ty, agentId |-> "a2", targetAgentId |-> "a1", skill |-> sk,
    message |-> msg, timestamp |-> 1, characterType |-> "coder"] :
     ty \in OfficeEventTypes, sk \in {NULL, "s1", "s2"},
     msg \in {<<>>, <<"Task complete!">>}}

InitMachine ==
  /\ InitBus
  /\ faulty = {}
  /\ DiffIdle
  /\ WatchIdle
  /\ tAgent \in {<<a>> : a \in MachineAgents}
  /\ tEvent \in {<<e>> : e \in MachineEvents}
  /\ tResult = <<>>
  /\ mSession = <<>>
  /\ mNow = <<>>
  /\ mResult = <<>>
  /\ mAgain = <<>>
  /\ ServerIdle
  /\ LockIdle
  /\ ShareIdle

Transition ==
  /\ tResult = <<>>
  /\ tResult' = <<transitionAgent(tAgent[1], tEvent[1])>>
  /\ UNCHANGED <<tAgent, tEvent, mSession, mNow, mResult, mAgain, busVars, diffVars,
                 watchVars>>

NextMachine == Transition /\ UNCHANGED <<srvVars, shareVars, lockVars>>

SpecMachine == InitMachine /\ [][NextMachine]_vars

----------------------------------------------------------------------------
(* SpecMap: sessionToOfficeState applied to a snapshot, and once more later *)

\* startTime of a record: absent, or a time in ms
StartTimes == {<<>>, <<0>>, <<120000>>}

\* endTime of a completed record
EndTimes == {<<>>, <<60000>>}

\* the clock readings of the mappings, in ms
MapTimes == {0, 60000, 240000}

MapRecords ==
  {[r EXCEPT !.startTime = t, !.endTime = IF r.status = "completed" THEN e ELSE <<>>] :
     r \in {Root(st) : st \in Statuses} \cup {Sub(st, <<"s1">>) : st \in Statuses},
     t \in StartTimes, e \in EndTimes}

\* null, a session without its agents list, or a session with up to MaxAgents
\* records, ids repeated or not
MapSessions ==
  {<<>>, <<GkSession(<<>>)>>}
  \cup {<<GkSession(<<l>>)>> : l \in SeqsUpTo(MapRecords, MaxAgents)}

InitMap ==
  /\ InitBus
  /\ faulty = {}
  /\ DiffIdle
  /\ WatchIdle
  /\ tAgent = <<>>
  /\ tEvent = <<>>
  /\ tResult = <<>>
  /\ mSession \in MapSessions
  /\ mNow = <<>>
  /\ mResult = <<>>
  /\ mAgain = <<>>
  /\ ServerIdle
  /\ LockIdle
  /\ ShareIdle

Map ==
  /\ mResult = <<>>
  /\ \E now \in MapTimes :
       /\ mResult' = <<sessionToOfficeState(mSession, now)>>
       /\ mNow' = <<now>>
  /\ UNCHANGED <<tAgent, tEvent, tResult, mSession, mAgain, busVars, diffVars, watchVars>>

\* the same snapshot mapped once more; the clock has not gone back
MapAgain ==
  /\ mResult # <<>>
  /\ mAgain = <<>>
  /\ \E now \in MapTimes :
       /\ now >= mNow[1]
       /\ mAgain' = <<sessionToOfficeState(mSession, now)>>
       /\ mNow' = Append(mNow, now)
  /\ UNCHANGED <<tAgent, tEvent, tResult, mSession, mResult, busVars, diffVars, watchVars>>

NextMap == (Map \/ MapAgain) /\ UNCHANGED <<srvVars, shareVars, lockVars>>

SpecMap == InitMap /\ [][NextMap]_vars

----------------------------------------------------------------------------
(* SpecPorts: the server is started against every run of taken ports and is
   sent HTTP requests. *)

\* what listen() can meet on a port nobody holds
BindOutcomes == {"listening", "EACCES"}

RequestPaths ==
  {<<>>, <<"index.html">>, <<"api", "state">>, <<"api", "history">>,
   <<"api", "open-doc">>, <<"style.css">>,
   <<"..", "package.json">>, <<"..", "..", "package.json">>,
   <<"api", "open-doc", "..", "package.json">>}

RequestQueries ==
  {<<>>, <<<<>>>>, <<<<"plan.md">>>>, <<<<"missing.md">>>>, <<<<"..", "secret.md">>>>}

Urls == [path : RequestPaths, query : RequestQueries]

InitPorts ==
  /\ InitBus
  /\ faulty = {}
  /\ DiffIdle
  /\ WatchIdle
  /\ FnIdle
  /\ server = NewServer
  /\ startPromise = [state |-> "none", port |-> 0, binds |-> 0]
  /\ portsInUse \in 0..MaxBusyPorts
  /\ portAfter \in BindOutcomes
  /\ sockets = [c \in SocketIds |-> NewSocket]
  /\ due = [c \in SocketIds |-> <<>>]
  /\ connectedWith = [c \in SocketIds |-> <<>>]
  /\ lastRequest = <<>>
  /\ lastResponse = <<>>
  /\ LockIdle
  /\ ShareIdle

\* the 'listening' callback: the socket server is built and the two bus
\* listeners are subscribed (the state listener is called at once, with no
\* client to send to)
listening(b) == onEvent(onStateChange(b, ServerStateListener).b, ServerEventListener).b

\* await server.start()
SrvStart ==
  /\ startPromise.state = "none"
  /\ \E r \in {tryStart(ConfiguredPort, 0, 0)} :
       /\ startPromise' = r
       /\ server' = [server EXCEPT !.server = TRUE, !.wss = (r.state = "resolved")]
       /\ emitter' = IF r.state = "resolved" THEN listening(emitter) ELSE emitter
  /\ lastOp' = Call("start", <<>>, FALSE, <<>>)
  /\ UNCHANGED <<faulty, busCalls, portsInUse, portAfter, sockets, due,
                 connectedWith, lastRequest, lastResponse>>

\* an HTTP request reaches the started server
Request(url, execOk) ==
  /\ startPromise.state = "resolved"
  /\ lastRequest' = <<url>>
  /\ lastResponse' = <<handleRequest(url, execOk)>>
  /\ UNCHANGED <<busVars, server, startPromise, portsInUse, portAfter, sockets,
                 due, connectedWith>>

NextPorts ==
  (SrvStart \/ \E url \in Urls, execOk \in BOOLEAN : Request(url, execOk))
  /\ UNCHANGED <<diffVars, watchVars, fnVars, shareVars, lockVars>>

SpecPorts == InitPorts /\ [][NextPorts]_vars

----------------------------------------------------------------------------
(* SpecServer: clients connect to the started server, break and close, while
   the bus is published to. *)

\* what each client sends: the first one pings, the second asks for a replay,
\* both may send something that is no message
ClientMessages(c) ==
  {[type |-> IF c = "c1" THEN "ping" ELSE "replay", fromTimestamp |-> 0],
   [type |-> "garbage", fromTimestamp |-> 0]}

\* each published projection is a new one: the session mapped at a later time
TestProjection(i) ==
  sessionToOfficeState(<<GkSession(<<<<Root("active")>>>>)>>, 30000 * i).state

InitServer ==
  /\ InitBus
  /\ faulty = {}
  /\ DiffIdle
  /\ WatchIdle
  /\ FnIdle
  /\ server = NewServer
  /\ startPromise = [state |-> "none", port |-> 0, binds |-> 0]
  /\ portsInUse = 1
  /\ portAfter = "listening"
  /\ sockets = [c \in SocketIds |-> NewSocket]
  /\ due = [c \in SocketIds |-> <<>>]
  /\ connectedWith = [c \in SocketIds |-> <<>>]
  /\ lastRequest = <<>>
  /\ lastResponse = <<>>
  /\ LockIdle
  /\ ShareIdle

Started == startPromise.state = "resolved"

\* the sockets a publication is owed to: connected and open
Listening(c) ==
  Started /\ c \in Range(server.clients) /\ sockets[c].readyState = "OPEN"

owe(frame) ==
  [c \in SocketIds |-> IF Listening(c) THEN Append(due[c], frame) ELSE due[c]]

\* a client connects; its send() may fail from the start
Connect(c, throws) ==
  /\ Started
  /\ server.wss
  /\ sockets[c].readyState = "NONE"
  /\ server' = [server EXCEPT !.clients = SetAdd(@, c)]
  /\ sockets' = connection([sockets EXCEPT ![c].sendThrows = throws], c,
                           getState(emitter))
  /\ connectedWith' = [connectedWith EXCEPT ![c] = <<getState(emitter)>>]
  /\ UNCHANGED <<busVars, startPromise, portsInUse, portAfter, due, lastRequest,
                 lastResponse>>

\* the transport of an open socket fails: send() throws from now on
SocketBreaks(c) ==
  /\ sockets[c].readyState = "OPEN"
  /\ ~sockets[c].sendThrows
  /\ sockets' = [sockets EXCEPT ![c].sendThrows = TRUE]
  /\ UNCHANGED <<busVars, server, startPromise, portsInUse, portAfter, due,
                 connectedWith, lastRequest, lastResponse>>

\* the peer closes; the 'close' event has not been delivered yet
SocketCloses(c) ==
  /\ sockets[c].readyState = "OPEN"
  /\ sockets' = [sockets EXCEPT ![c].readyState = "CLOSED"]
  /\ UNCHANGED <<busVars, server, startPromise, portsInUse, portAfter, due,
                 connectedWith, lastRequest, lastResponse>>

\* ws.on('close'): this.clients.delete(ws)
CloseEvent(c) ==
  /\ sockets[c].readyState = "CLOSED"
  /\ c \in Range(server.clients)
  /\ server' = [server EXCEPT !.clients = SetDelete(@, c)]
  /\ UNCHANGED <<busVars, startPromise, portsInUse, portAfter, sockets, due,
                 connectedWith, lastRequest, lastResponse>>

\* ws.on('message'): a client sends its messages on connecting, before
\* anything is published to it
ClientMessage(c, msg) ==
  /\ sockets[c].readyState = "OPEN"
  /\ due[c] = <<>>
  /\ \E reply \in {messageReply(emitter, msg)} :
       /\ sockets' = IF reply = <<>> THEN sockets
                     ELSE [sockets EXCEPT ![c] = trySend(@, reply[1])]
       /\ due' = IF reply = <<>> THEN due
                 ELSE [due EXCEPT ![c] = Append(@, reply[1])]
  /\ UNCHANGED <<busVars, server, startPromise, portsInUse, portAfter,
                 connectedWith, lastRequest, lastResponse>>

\* emitter.setState(p) by the dashboard; the server's listener broadcasts
SrvSetState ==
  /\ Started
  /\ busCalls < MaxPublications
  /\ \E r \in {setState(emitter, TestProjection(busCalls + 1))} :
       /\ emitter' = r.b
       /\ lastOp' = Call("setState", <<TestProjection(busCalls + 1)>>, r.threw, <<>>)
       /\ sockets' = hearStates(sockets, server.clients,
                                callsSince(emitter.seenStates[ServerStateListener],
                                           r.b.seenStates[ServerStateListener]))
  /\ due' = owe(StateFrame(TestProjection(busCalls + 1)))
  /\ busCalls' = busCalls + 1
  /\ UNCHANGED <<faulty, server, startPromise, portsInUse, portAfter,
                 connectedWith, lastRequest, lastResponse>>

\* emitter.emit(event) by the dashboard; the server's listener broadcasts
SrvEmit ==
  /\ Started
  /\ busCalls < MaxPublications
  /\ \E r \in {emit(emitter, TestEvent(busCalls + 1))} :
       /\ emitter' = r.b
       /\ lastOp' = Call("emit", <<TestEvent(busCalls + 1)>>, r.threw, <<>>)
       /\ sockets' = hearEvents(sockets, server.clients,
                                callsSince(emitter.seenEvents[ServerEventListener],
                                           r.b.seenEvents[ServerEventListener]))
  /\ due' = owe(EventFrame(TestEvent(busCalls + 1)))
  /\ busCalls' = busCalls + 1
  /\ UNCHANGED <<faulty, server, startPromise, portsInUse, portAfter,
                 connectedWith, lastRequest, lastResponse>>

NextServer ==
  (\/ SrvStart
   \/ \E c \in SocketIds, throws \in BOOLEAN : Connect(c, throws)
   \/ \E c \in SocketIds : SocketBreaks(c)
   \/ \E c \in SocketIds : SocketCloses(c)
   \/ \E c \in SocketIds : CloseEvent(c)
   \/ \E c \in SocketIds : \E msg \in ClientMessages(c) : ClientMessage(c, msg)
   \/ SrvSetState
   \/ SrvEmit)
  /\ UNCHANGED <<diffVars, watchVars, fnVars, shareVars, lockVars>>

SpecServer == InitServer /\ [][NextServer]_vars

----------------------------------------------------------------------------
(* SpecShare: a component takes the projection from the bus, applies
   processEvent to what it holds and publishes, beside the dashboard's own
   publications of freshly mapped projections. *)

ShareSessions ==
  {GkSession(<<<<Root("active"), Sub("active", <<"s1">>)>>>>),
   GkSession(<<<<Root("active"), Sub("completed", <<"s1">>)>>>>)}

\* events about the sub-agent, the orchestrator and an agent nobody knows
ShareEvents ==
  {[type |-> ty, agentId |-> id, targetAgentId |-> NULL, skill |-> sk,
    message |-> MessageFor(ty, sk), timestamp |-> 1] :
     ty \in {"task_complete", "agent_idle", "skill_activated"},
     id \in {"a1", "a2", "a9"}, sk \in {"s2"}}

InitShare ==
  /\ faulty = {}
  /\ emitter = onStateChange(NewEmitter(1), "sl1").b
  /\ busCalls = 0
  /\ lastOp = Call("new", <<>>, FALSE, <<>>)
  /\ DiffIdle
  /\ WatchIdle
  /\ FnIdle
  /\ ServerIdle
  /\ LockIdle
  /\ heap = alloc(NoObjects, createInitialState)
  /\ held = {}
  /\ pubLog = <<[ref |-> 1, state |-> createInitialState]>>

\* const state = emitter.getState()
ShGetState ==
  /\ held' = held \cup {getState(emitter)}
  /\ lastOp' = Call("getState", <<>>, FALSE, <<getState(emitter)>>)
  /\ UNCHANGED <<emitter, faulty, busCalls, heap, pubLog>>

\* const next = processEvent(state, event)
ShProcessEvent(ref, event) ==
  /\ ref \in held
  /\ Len(heap.states) < MaxObjects
  /\ \E r \in {processEvent(heap, ref, event)} :
       /\ heap' = r.heap
       /\ held' = held \cup {r.ret}
       /\ lastOp' = Call("processEvent", <<ref, event>>, FALSE, <<r.ret>>)
  /\ UNCHANGED <<emitter, faulty, busCalls, pubLog>>

\* emitter.setState(next)
ShSetState(ref) ==
  /\ ref \in held
  /\ busCalls < MaxBusCalls
  /\ emitter' = setState(emitter, ref).b
  /\ pubLog' = Append(pubLog, [ref |-> ref, state |-> deref(heap, ref)])
  /\ lastOp' = Call("setState", <<ref>>, FALSE, <<>>)
  /\ busCalls' = busCalls + 1
  /\ UNCHANGED <<faulty, heap, held>>

\* the dashboard's onSessionChange: emitter.setState(sessionToOfficeState(session))
ShSessionChange(session) ==
  /\ Len(heap.states) < MaxObjects
  /\ busCalls < MaxBusCalls
  /\ \E st \in {sessionToOfficeState(<<session>>, 0).state} :
       /\ heap' = alloc(heap, st)
       /\ pubLog' = Append(pubLog, [ref |-> Len(heap.states) + 1, state |-> st])
  /\ emitter' = setState(emitter, Len(heap.states) + 1).b
  /\ lastOp' = Call("setState", <<Len(heap.states) + 1>>, FALSE, <<>>)
  /\ busCalls' = busCalls + 1
  /\ UNCHANGED <<faulty, held>>

NextShare ==
  (\/ ShGetState
   \/ \E ref \in 1..MaxObjects, event \in ShareEvents : ShProcessEvent(ref, event)
   \/ \E ref \in 1..MaxObjects : ShSetState(ref)
   \/ \E session \in ShareSessions : ShSessionChange(session))
  /\ UNCHANGED <<diffVars, watchVars, fnVars, srvVars, lockVars>>

SpecShare == InitShare /\ [][NextShare]_vars

----------------------------------------------------------------------------
(* SpecReplay: events with any timestamps are emitted on the bus of a started
   server; the history is replayed by a direct call and for clients that ask
   over their socket. *)

EventTimes == {1, 2, 3}

ReplayTimes == {0, 2, 4}

\* emitter.emit(event), the event carrying any of the timestamps; the server's
\* listener broadcasts it
REmit(ts) ==
  /\ Started
  /\ busCalls < MaxPublications
  /\ \E e \in {[TestEvent(busCalls + 1) EXCEPT !.timestamp = ts]} :
       /\ emitter' = emit(emitter, e).b
       /\ lastOp' = Call("emit", <<e>>, FALSE, <<>>)
       /\ sockets' = hearEvents(sockets, server.clients,
                                callsSince(emitter.seenEvents[ServerEventListener],
                                           emit(emitter, e).b.seenEvents[ServerEventListener]))
       /\ due' = owe(EventFrame(e))
  /\ busCalls' = busCalls + 1
  /\ UNCHANGED <<faulty, server, startPromise, portsInUse, portAfter,
                 connectedWith, lastRequest, lastResponse>>

\* emitter.replay(t)
RReplay(t) ==
  /\ lastOp' = Call("replay", <<t>>, FALSE, replay(emitter, t))
  /\ UNCHANGED <<emitter, faulty, busCalls, srvVars>>

\* ws.on('message') for { type: 'replay', fromTimestamp: t }, sent by a client
\* on connecting
ReplayRequest(c, t) ==
  /\ sockets[c].readyState = "OPEN"
  /\ due[c] = <<>>
  /\ \E reply \in {messageReply(emitter, [type |-> "replay", fromTimestamp |-> t])} :
       /\ sockets' = [sockets EXCEPT ![c] = trySend(@, reply[1])]
       /\ due' = [due EXCEPT ![c] = Append(@, reply[1])]
       /\ lastOp' = Call("message", <<c, t>>, FALSE, reply[1].data)
  /\ UNCHANGED <<emitter, faulty, busCalls, server, startPromise, portsInUse,
                 portAfter, connectedWith, lastRequest, lastResponse>>

NextReplay ==
  (\/ SrvStart
   \/ \E c \in SocketIds, throws \in BOOLEAN : Connect(c, throws)
   \/ \E ts \in EventTimes : REmit(ts)
   \/ \E t \in ReplayTimes : RReplay(t)
   \/ \E c \in SocketIds, t \in ReplayTimes : ReplayRequest(c, t))
  /\ UNCHANGED <<diffVars, watchVars, fnVars, shareVars, lockVars>>

SpecReplay == InitServer /\ [][NextReplay]_vars

----------------------------------------------------------------------------
(* SpecPing: clients of a started server send pings and texts the server does
   not understand, next to publications on the bus. *)

\* what a client sends: a ping, a message of an unknown type, an object
\* without a type, the text null, and a text that is no JSON
PingTexts ==
  {"{\"type\":\"ping\"}", "{\"type\":\"subscribe\"}", "{}", "null", "ping"}

\* a 'message' event on socket c; a client sends its messages on connecting,
\* before anything is published to it
MessageArrives(c, data) ==
  /\ sockets[c].readyState = "OPEN"
  /\ due[c] = <<>>
  /\ sockets' = [sockets EXCEPT ![c] = onMessage(emitter, @, data)]
  /\ due' = [due EXCEPT ![c] = @ \o messageReply(emitter, parseMessage(data).msg)]
  /\ lastOp' = Call("message", <<c, data>>, FALSE, <<>>)
  /\ UNCHANGED <<emitter, faulty, busCalls, server, startPromise, portsInUse,
                 portAfter, connectedWith, lastRequest, lastResponse>>

NextPing ==
  (\/ SrvStart
   \/ \E c \in SocketIds, throws \in BOOLEAN : Connect(c, throws)
   \/ \E c \in SocketIds : SocketCloses(c)
   \/ \E c \in SocketIds : CloseEvent(c)
   \/ \E c \in SocketIds, data \in PingTexts : MessageArrives(c, data)
   \/ SrvSetState
   \/ SrvEmit)
  /\ UNCHANGED <<diffVars, watchVars, fnVars, shareVars, lockVars>>

SpecPing == InitServer /\ [][NextPing]_vars

----------------------------------------------------------------------------
(* SpecClassify: snapshots whose records carry every combination of the three
   orchestrator signals are mapped. *)

ClassifyRecords ==
  {GkAgent(id, parent, type, "active", <<>>) :
     id \in AgentIds, parent \in {NULL, "a1"}, type \in {"Main Agent", "Sub Agent"}}

InitClassify ==
  /\ InitBus
  /\ faulty = {}
  /\ DiffIdle
  /\ WatchIdle
  /\ tAgent = <<>>
  /\ tEvent = <<>>
  /\ tResult = <<>>
  /\ mSession \in {<<GkSession(<<l>>)>> : l \in SeqsUpTo(ClassifyRecords, MaxAgents)}
  /\ mNow = <<>>
  /\ mResult = <<>>
  /\ mAgain = <<>>
  /\ ServerIdle
  /\ LockIdle
  /\ ShareIdle

SpecClassify == InitClassify /\ [][NextMap]_vars

----------------------------------------------------------------------------
(* SpecPartial: snapshots of one sub-agent record in which every optional
   field is there or absent are mapped. *)

PartialRecords ==
  {[Sub(st, <<>>) EXCEPT !.agentRole = role, !.skills = sk, !.tokenUsage = tu,
                         !.prompt = pr, !.startTime = t, !.endTime = e] :
     st \in Statuses, role \in {"", "researcher"}, sk \in {<<>>, <<<<"s1">>>>},
     tu \in {<<>>, <<[input |-> 100, output |-> 50]>>},
     pr \in {<<>>, <<<<"Find", "the", "bug">>>>}, t \in {<<>>, <<0>>},
     e \in {<<>>, <<60000>>}}

PartialSessions ==
  {[GkSession(<<<<r>>>>) EXCEPT !.activePlan = plan, !.appName = app] :
     r \in PartialRecords, plan \in {UNDEFINED, NULL, "plan-a"},
     app \in {UNDEFINED, "code"}}

InitPartial ==
  /\ InitBus
  /\ faulty = {}
  /\ DiffIdle
  /\ WatchIdle
  /\ tAgent = <<>>
  /\ tEvent = <<>>
  /\ tResult = <<>>
  /\ mSession \in {<<session>> : session \in PartialSessions}
  /\ mNow = <<>>
  /\ mResult = <<>>
  /\ mAgain = <<>>
  /\ ServerIdle
  /\ LockIdle
  /\ ShareIdle

SpecPartial == InitPartial /\ [][NextMap]_vars

----------------------------------------------------------------------------
(* SpecStop: the server is started once and stopped any number of times, before
   or after, while clients connect and close and the bus is published to. *)

\* server.stop()
SrvStop ==
  /\ \E r \in {stopServer(server, sockets)} :
       /\ server' = r.server
       /\ sockets' = r.sockets
  /\ lastOp' = Call("stop", <<>>, FALSE, <<>>)
  /\ UNCHANGED <<emitter, faulty, busCalls, startPromise, portsInUse, portAfter,
                 due, connectedWith, lastRequest, lastResponse>>

InitStop ==
  /\ InitBus
  /\ faulty = {}
  /\ DiffIdle
  /\ WatchIdle
  /\ FnIdle
  /\ ShareIdle
  /\ server = NewServer
  /\ startPromise = [state |-> "none", port |-> 0, binds |-> 0]
  /\ portsInUse = 0
  /\ portAfter \in BindOutcomes
  /\ sockets = [c \in SocketIds |-> NewSocket]
  /\ due = [c \in SocketIds |-> <<>>]
  /\ connectedWith = [c \in SocketIds |-> <<>>]
  /\ lastRequest = <<>>
  /\ lastResponse = <<>>
  /\ LockIdle

NextStop ==
  (\/ SrvStart
   \/ SrvStop
   \/ \E c \in SocketIds, throws \in BOOLEAN : Connect(c, throws)
   \/ \E c \in SocketIds : SocketCloses(c)
   \/ \E c \in SocketIds : CloseEvent(c)
   \/ SrvSetState
   \/ SrvEmit)
  /\ UNCHANGED <<diffVars, watchVars, fnVars, shareVars, lockVars>>

SpecStop == InitStop /\ [][NextStop]_vars

----------------------------------------------------------------------------
(* Claims about the event bus *)

\* C1: after any sequence of emit, setState, replay and dispose calls the event
\* history holds at most MAX_HISTORY_SIZE (1000) entries, and so does what
\* replay returns
C1_HistoryAtMost1000 ==
  /\ Len(emitter.eventHistory) <= MAX_HISTORY_SIZE
  /\ lastOp.op = "replay" => Len(lastOp.ret) <= MAX_HISTORY_SIZE

\* 1100 events were emitted and replay(0) has just returned 1000 of them
C1_Witness ==
  /\ Len(emitter.emitted) = 1100
  /\ lastOp.op = "replay"
  /\ lastOp.arg = <<0>>
  /\ Len(lastOp.ret) = 1000

\* C3: onStateChange(l) invokes l exactly once, with the projection the bus
\* holds at the call, invokes no other listener, leaves the projection alone and
\* leaves l registered; a later setState invokes every registered listener once
\* more, with the new projection
C3_OnStateChangeInitialCall ==
  [][/\ lastOp'.op = "onStateChange" =>
          LET l == lastOp'.arg[1]
          IN /\ emitter'.seenStates =
                  [emitter.seenStates EXCEPT ![l] = Append(@, emitter.state)]
             /\ emitter'.state = emitter.state
             /\ l \in Range(emitter'.stateListeners)
     /\ lastOp'.op = "setState" =>
          \A l \in Range(emitter.stateListeners) :
            /\ l \in Range(emitter'.stateListeners)
            /\ emitter'.seenStates[l] = Append(emitter.seenStates[l], lastOp'.arg[1])
    ]_vars

\* the first call ever made on the bus is onStateChange, and the listener has
\* been invoked with the initial projection
C3_Witness ==
  /\ lastOp.op = "onStateChange"
  /\ busCalls = 1
  /\ emitter.seenStates[lastOp.arg[1]] = <<createInitialState>>
  /\ lastOp.arg[1] \in Range(emitter.stateListeners)

\* C4: setState(next) replaces the projection by next, emit(event) records the
\* event, and each invokes every listener registered on its channel exactly
\* once, whichever of them throw; the call itself never throws
C4_ListenerFaultIsolation ==
  [][/\ lastOp'.op = "setState" =>
          /\ emitter'.state = lastOp'.arg[1]
          /\ ~lastOp'.threw
          /\ \A l \in StateListenerIds :
               emitter'.seenStates[l] =
                 IF l \in Range(emitter.stateListeners)
                 THEN Append(emitter.seenStates[l], lastOp'.arg[1])
                 ELSE emitter.seenStates[l]
     /\ lastOp'.op = "emit" =>
          /\ Last(emitter'.eventHistory) = lastOp'.arg[1]
          /\ ~lastOp'.threw
          /\ \A l \in EventListenerIds :
               emitter'.seenEvents[l] =
                 IF l \in Range(emitter.eventListeners)
                 THEN Append(emitter.seenEvents[l],
                             [event |-> lastOp'.arg[1], view |-> emitter.state])
                 ELSE emitter.seenEvents[l]
    ]_vars

\* setState has just returned: the listener invoked first throws, and the one
\* registered after it has received the new projection
C4_Witness ==
  /\ lastOp.op = "setState"
  /\ ~lastOp.threw
  /\ emitter.stateListeners = <<"sl1", "sl2">>
  /\ "sl1" \in faulty
  /\ Len(emitter.seenStates["sl2"]) = 2
  /\ Last(emitter.seenStates["sl2"]) = lastOp.arg[1]
  /\ emitter.state = lastOp.arg[1]

\* C23: after dispose() the bus has no state listener, no event listener and
\* an empty history, so replay(0) returns the empty list; setState and emit
\* invoke only the listeners registered at that moment, hence none that was
\* registered before a dispose and not again since.
C23_DisposeClears ==
  [][/\ lastOp'.op = "dispose" =>
          /\ emitter'.stateListeners = <<>>
          /\ emitter'.eventListeners = <<>>
          /\ emitter'.eventHistory = <<>>
          /\ replay(emitter', 0) = <<>>
          /\ emitter'.seenStates = emitter.seenStates
          /\ emitter'.seenEvents = emitter.seenEvents
     /\ lastOp'.op \in {"setState", "emit"} =>
          /\ \A l \in StateListenerIds \ Range(emitter.stateListeners) :
               emitter'.seenStates[l] = emitter.seenStates[l]
          /\ \A l \in EventListenerIds \ Range(emitter.eventListeners) :
               emitter'.seenEvents[l] = emitter.seenEvents[l]
    ]_vars

\* a bus with listeners on both channels that had been called, disposed
C23_Witness ==
  /\ lastOp.op = "dispose"
  /\ emitter.seenStates["sl1"] # <<>>
  /\ emitter.seenEvents["el1"] # <<>>
  /\ emitter.stateListeners = <<>>
  /\ emitter.eventListeners = <<>>

\* ret lists, in the order of history, exactly its events stamped t or later
IsReplayOf(ret, history, t) ==
  /\ Len(ret) = Cardinality({i \in DOMAIN history : history[i].timestamp >= t})
  /\ \E f \in [DOMAIN ret -> DOMAIN history] :
       /\ \A j, k \in DOMAIN ret : j < k => f[j] < f[k]
       /\ \A j \in DOMAIN ret : ret[j] = history[f[j]] /\ ret[j].timestamp >= t

\* C24: replay(t) returns exactly the events of the history stamped t or
\* later, in history order, and leaves the history as it was; a client that
\* asks for a replay over its socket is sent that list.
C24_ReplayReturnsEventsSince ==
  [][/\ lastOp'.op = "replay" =>
          /\ IsReplayOf(lastOp'.ret, emitter.eventHistory, lastOp'.arg[1])
          /\ emitter'.eventHistory = emitter.eventHistory
     /\ lastOp'.op = "message" =>
          /\ IsReplayOf(lastOp'.ret, emitter.eventHistory, lastOp'.arg[2])
          /\ emitter'.eventHistory = emitter.eventHistory
          /\ ~sockets'[lastOp'.arg[1]].sendThrows =>
               Last(sockets'[lastOp'.arg[1]].sent) =
                 [type |-> "replay", data |-> lastOp'.ret]
    ]_vars

\* a client was sent the one event, of two emitted out of time order, that is
\* stamped at or after the time it asked for
C24_Witness ==
  /\ lastOp.op = "message"
  /\ Len(emitter.eventHistory) = 2
  /\ emitter.eventHistory[1].timestamp > emitter.eventHistory[2].timestamp
  /\ emitter.eventHistory[1].timestamp = lastOp.arg[2]
  /\ lastOp.ret = <<emitter.eventHistory[1]>>
  /\ Last(sockets[lastOp.arg[1]].sent).data = lastOp.ret

\* C5: the history is exactly the last min(n, 1000) of the n events emitted
\* since construction or the last dispose, in emission order, and replay(0)
\* returns exactly those
C5_HistoryIsNewestEvents ==
  LET n == Len(emitter.emitted)
      newest == SubSeq(emitter.emitted, n - Min(n, MAX_HISTORY_SIZE) + 1, n)
  IN /\ emitter.eventHistory = newest
     /\ (lastOp.op = "replay" /\ lastOp.arg = <<0>>) => lastOp.ret = newest

\* after 1100 emits replay(0) returns events 101..1100
C5_Witness ==
  /\ Len(emitter.emitted) = 1100
  /\ lastOp.op = "replay"
  /\ lastOp.arg = <<0>>
  /\ lastOp.ret = [i \in 1..1000 |-> TestEvent(100 + i)]
  /\ \A i \in 1..100 : TestEvent(i) \notin Range(lastOp.ret)

----------------------------------------------------------------------------
(* Claims about the diff engine *)

DiffDone == dResult # <<>> /\ ~dResult[1].threw

PrevIds == {dPrev[1].agents[1][i].gkSessionId : i \in 1..Len(dPrev[1].agents[1])}

PrevStatus(id) ==
  LET p == prevAgentOf(dPrev[1].agents[1], id)
  IN IF p = <<>> THEN "absent" ELSE p[1].status

\* the positions in the event list of the events of type t about agent id
EventsAt(id, t) ==
  {i \in 1..Len(dResult[1].events) :
     dResult[1].events[i].type = t /\ dResult[1].events[i].agentId = id}

\* C8: an agent present in the current snapshot with status completed and absent
\* from the previous one yields a received_work event and no task_complete event
C8_NewCompletedAgent ==
  DiffDone =>
    \A i \in 1..Len(dCurr[1].agents[1]) :
      LET a == dCurr[1].agents[1][i]
      IN (a.status = "completed" /\ a.gkSessionId \notin PrevIds) =>
           /\ EventsAt(a.gkSessionId, "received_work") # {}
           /\ EventsAt(a.gkSessionId, "task_complete") = {}

\* a sub-agent first seen already completed, next to a root that just completed
C8_Witness ==
  /\ DiffDone
  /\ PrevIds = {"a1"}
  /\ EventsAt("a1", "task_complete") # {}
  /\ \E i \in 1..Len(dCurr[1].agents[1]) :
       /\ dCurr[1].agents[1][i].gkSessionId = "a2"
       /\ dCurr[1].agents[1][i].status = "completed"
  /\ EventsAt("a2", "received_work") # {}

\* C9: an agent active in the previous snapshot and completed in the current one
\* yields exactly one task_complete and exactly one delivering event, the
\* delivering right after the task_complete; any other status pair yields neither
C9_ActiveToCompleted ==
  DiffDone =>
    \A i \in 1..Len(dCurr[1].agents[1]) :
      LET a == dCurr[1].agents[1][i]
          done == EventsAt(a.gkSessionId, "task_complete")
          deliv == EventsAt(a.gkSessionId, "delivering")
      IN IF PrevStatus(a.gkSessionId) = "active" /\ a.status = "completed"
         THEN /\ Cardinality(done) = 1
              /\ Cardinality(deliv) = 1
              /\ \A j \in done : j + 1 \in deliv
         ELSE done = {} /\ deliv = {}

\* both agents completed since the previous snapshot
C9_Witness ==
  /\ DiffDone
  /\ Len(dCurr[1].agents[1]) = 2
  /\ \A id \in AgentIds :
       /\ PrevStatus(id) = "active"
       /\ Cardinality(EventsAt(id, "task_complete")) = 1
       /\ Cardinality(EventsAt(id, "delivering")) = 1

SessionCompleteAt ==
  {i \in 1..Len(dResult[1].events) : dResult[1].events[i].type = "session_complete"}

\* C10: the diff holds a session_complete event iff prev has an active agent,
\* curr has no active agent and curr has at least one agent; it never holds two
C10_SessionComplete ==
  DiffDone =>
    LET prev == dPrev[1].agents[1]
        curr == dCurr[1].agents[1]
        expected == /\ \E i \in 1..Len(prev) : prev[i].status = "active"
                    /\ ~\E i \in 1..Len(curr) : curr[i].status = "active"
                    /\ Len(curr) >= 1
    IN /\ (SessionCompleteAt # {}) <=> expected
       /\ Cardinality(SessionCompleteAt) <= 1

\* the last active agent failed: the session is complete
C10_Witness ==
  /\ DiffDone
  /\ Cardinality(SessionCompleteAt) = 1
  /\ \E i \in 1..Len(dCurr[1].agents[1]) : dCurr[1].agents[1][i].status = "failed"
  /\ \E i \in 1..Len(dPrev[1].agents[1]) : dPrev[1].agents[1][i].status = "active"

\* both calls of the diff with the same snapshots have returned
DiffTwice == DiffDone /\ dAgain # <<>> /\ ~dAgain[1].threw

\* C11 as stated: two calls of the diff with the same snapshots return
\* identical event lists, timestamps included.
C11_DiffIdentical == DiffTwice => dAgain[1].events = dResult[1].events

\* C11: two calls of the diff with the same snapshots return the same events
\* in the same order with the same fields, except that every event carries as
\* timestamp the clock reading of its own call; the lists are identical when
\* the clock reads the same in both calls.
C11_DiffIdenticalUpToClock ==
  DiffTwice =>
    /\ Len(dAgain[1].events) = Len(dResult[1].events)
    /\ \A i \in 1..Len(dResult[1].events) :
         /\ dResult[1].events[i].timestamp = dNow[1]
         /\ dAgain[1].events[i].timestamp = dNow[2]
         /\ [dAgain[1].events[i] EXCEPT !.timestamp = dNow[1]] = dResult[1].events[i]
    /\ dNow[1] = dNow[2] => dAgain[1].events = dResult[1].events

\* two calls at different clock readings, each returning several events
C11_Witness ==
  /\ DiffTwice
  /\ dNow[1] # dNow[2]
  /\ Len(dResult[1].events) >= 3
  /\ Len(dAgain[1].events) >= 3

----------------------------------------------------------------------------
(* Claims about the agent state machine *)

\* the table of legal moves as the specification gives it
LegalMoves ==
  {<<"idle", "working">>, <<"idle", "walking">>, <<"idle", "receiving">>,
   <<"working", "idle">>, <<"working", "delivering">>, <<"working", "walking">>,
   <<"walking", "idle">>, <<"walking", "working">>, <<"walking", "delivering">>,
   <<"delivering", "idle">>, <<"delivering", "walking">>,
   <<"receiving", "working">>, <<"receiving", "idle">>}

\* the event has a mapped destination and the move to it is in the table
MoveApplies ==
  /\ stateMap(tEvent[1].type) # NULL
  /\ <<tAgent[1].state, stateMap(tEvent[1].type)>> \in LegalMoves

\* C12: transitionAgent returns the view unchanged or a view whose state is a
\* legal destination of the old state; it returns the view unchanged when the
\* event type has no mapped destination or the move is not in the table.
C12_OnlyLegalMoves ==
  tResult # <<>> =>
    /\ \/ tResult[1] = tAgent[1]
       \/ <<tAgent[1].state, tResult[1].state>> \in LegalMoves
    /\ tEvent[1].type \in {"handoff_complete", "session_complete"} =>
         tResult[1] = tAgent[1]
    /\ ~MoveApplies => tResult[1] = tAgent[1]

\* a delivering event on an idle agent leaves it as it was
C12_Witness ==
  /\ tResult # <<>>
  /\ tAgent[1].state = "idle"
  /\ tEvent[1].type = "delivering"
  /\ tResult[1] = tAgent[1]

\* C13 as stated: on every valid transition activeSkill equals the event's
\* skill, the highlight flag is set exactly for skill_activated and the speech
\* bubble equals the event's message.
C13_RefreshedFromEvent ==
  (tResult # <<>> /\ MoveApplies) =>
    /\ tResult[1].activeSkill = tEvent[1].skill
    /\ tResult[1].hasFireEffect = (tEvent[1].type = "skill_activated")
    /\ tResult[1].speechBubble = <<tEvent[1].message>>

\* C13: on every valid transition the state is the mapped destination, the
\* highlight flag is set exactly for skill_activated, activeSkill is the
\* event's skill if it has one and the old activeSkill otherwise, the speech
\* bubble is the event's message if it is not empty and null otherwise, and
\* every other field is kept.
C13_RefreshedFromEventOrKept ==
  (tResult # <<>> /\ MoveApplies) =>
    /\ tResult[1].state = stateMap(tEvent[1].type)
    /\ tResult[1].hasFireEffect = (tEvent[1].type = "skill_activated")
    /\ tResult[1].activeSkill =
         IF tEvent[1].skill # NULL THEN tEvent[1].skill ELSE tAgent[1].activeSkill
    /\ tResult[1].speechBubble =
         IF tEvent[1].message # <<>> THEN <<tEvent[1].message>> ELSE <<>>
    /\ \A f \in DOMAIN tAgent[1] \ {"state", "hasFireEffect", "activeSkill", "speechBubble"} :
         tResult[1][f] = tAgent[1][f]

\* an idle agent with no skill receives skill_activated with a skill: it is
\* working on that skill, highlighted
C13_Witness ==
  /\ tResult # <<>>
  /\ tAgent[1].state = "idle"
  /\ tAgent[1].activeSkill = NULL
  /\ tEvent[1].type = "skill_activated"
  /\ tEvent[1].skill = "s1"
  /\ tResult[1].state = "working"
  /\ tResult[1].activeSkill = "s1"
  /\ tResult[1].hasFireEffect

----------------------------------------------------------------------------
(* Claims about the projection mapper *)

\* the snapshot was mapped without an exception
Mapped == mResult # <<>> /\ ~mResult[1].threw

MappedRecords == IF mSession = <<>> THEN <<>> ELSE mSession[1].agents[1]

CompletedIds ==
  {MappedRecords[i].gkSessionId :
     i \in {j \in 1..Len(MappedRecords) : MappedRecords[j].status = "completed"}}

InboxIds(state) == {state.inbox[i].agentId : i \in 1..Len(state.inbox)}

\* C14: the inbox of the mapped projection has exactly one entry per distinct
\* agent id with a completed record and no other entry, and mapping the same
\* snapshot again gives an inbox with the same agent ids, none doubled.
C14_OneInboxEntryPerCompletedAgent ==
  Mapped =>
    /\ InboxIds(mResult[1].state) = CompletedIds
    /\ Len(mResult[1].state.inbox) = Cardinality(CompletedIds)
    /\ mAgain # <<>> =>
         /\ InboxIds(mAgain[1].state) = InboxIds(mResult[1].state)
         /\ Len(mAgain[1].state.inbox) = Len(mResult[1].state.inbox)

\* a snapshot with two completed records of the same agent, mapped twice
C14_Witness ==
  /\ Mapped
  /\ mAgain # <<>>
  /\ Len(MappedRecords) = 2
  /\ MappedRecords[1].gkSessionId = MappedRecords[2].gkSessionId
  /\ MappedRecords[1].status = "completed"
  /\ MappedRecords[2].status = "completed"
  /\ Len(mAgain[1].state.inbox) = 1

\* the agent views of a projection
ViewsOf(state) ==
  {state.agents[id] : id \in DOMAIN state.agents}
  \cup {state.orchestrator[i] : i \in 1..Len(state.orchestrator)}

\* the record a view was mapped from: the last one of its id
RecordOf(id) ==
  MappedRecords[CHOOSE i \in 1..Len(MappedRecords) :
                  /\ MappedRecords[i].gkSessionId = id
                  /\ \A j \in (i + 1)..Len(MappedRecords) :
                       MappedRecords[j].gkSessionId # id]

\* C15: the progress of every mapped agent view is an integer in 0..100; it is
\* 100 for a completed agent and 0 for a failed agent.
C15_ProgressInRange ==
  Mapped =>
    \A v \in ViewsOf(mResult[1].state) :
      /\ v.progress \in 0..100
      /\ RecordOf(v.id).status = "completed" => v.progress = 100
      /\ RecordOf(v.id).status = "failed" => v.progress = 0

\* one of the three signals marks record r as the orchestrator
Signalled(r) ==
  \/ r.agentType = "Main Agent"
  \/ r.parentGkSessionId = NULL
  \/ r.gkSessionId = mSession[1].gkSessionId

\* the indices of the records that are, or are not, signalled
IndicesWhere(signalled) ==
  {i \in 1..Len(MappedRecords) : Signalled(MappedRecords[i]) = signalled}

Max(S) == CHOOSE x \in S : \A y \in S : y <= x

\* C25: a record is classified as the orchestrator exactly when its type is
\* the root type, its parent id is null or its id is the session's; the
\* orchestrator slot holds the view of the (last) record so classified, and the
\* agents mapping holds, under its id, every record not so classified.
C25_OrchestratorByAnySignal ==
  Mapped =>
    /\ \A i \in 1..Len(MappedRecords) :
         isOrchestrator(MappedRecords[i], mSession[1]) = Signalled(MappedRecords[i])
    /\ IF IndicesWhere(TRUE) = {} THEN mResult[1].state.orchestrator = <<>>
       ELSE /\ Len(mResult[1].state.orchestrator) = 1
            /\ mResult[1].state.orchestrator[1].id =
                 MappedRecords[Max(IndicesWhere(TRUE))].gkSessionId
            /\ mResult[1].state.orchestrator[1].agentType = "orchestrator"
    /\ DOMAIN mResult[1].state.agents =
         {MappedRecords[i].gkSessionId : i \in IndicesWhere(FALSE)}
    /\ \A id \in DOMAIN mResult[1].state.agents :
         /\ mResult[1].state.agents[id].id = id
         /\ mResult[1].state.agents[id].agentType = "sub-agent"

\* a record that only its id marks as the orchestrator, beside a sub-agent
C25_Witness ==
  /\ Mapped
  /\ Len(MappedRecords) = 2
  /\ MappedRecords[1].gkSessionId = mSession[1].gkSessionId
  /\ MappedRecords[1].agentType = "Sub Agent"
  /\ MappedRecords[1].parentGkSessionId # NULL
  /\ ~Signalled(MappedRecords[2])
  /\ mResult[1].state.orchestrator[1].id = MappedRecords[1].gkSessionId
  /\ DOMAIN mResult[1].state.agents = {MappedRecords[2].gkSessionId}

----------------------------------------------------------------------------
(* Claims about the broadcast server *)

\* the first port nobody holds
FirstFreePort == ConfiguredPort + portsInUse

\* C17: start() tries consecutive ports from the configured one while binding
\* fails with address-in-use, makes at most 10 bind attempts, resolves with the
\* first port that binds (never below the configured port), and rejects once
\* the attempts are exhausted or on any other bind error.
C17_AtMostTenBinds ==
  startPromise.state # "none" =>
    /\ startPromise.binds <= 10
    /\ startPromise.state = "resolved" =>
         /\ startPromise.port = FirstFreePort
         /\ startPromise.port >= ConfiguredPort
         /\ portAfter = "listening"
    /\ startPromise.state = "rejected" =>
         \/ portAfter # "listening"
         \/ startPromise.binds >= 10

\* C20: a request whose path has a parent-directory segment is answered 403
\* and touches no file.
C20_TraversalRefused ==
  (lastRequest # <<>> /\ ".." \in Range(lastRequest[1].path)) =>
    /\ lastResponse[1].status = 403
    /\ ~lastResponse[1].fs

\* what the server owes socket c: the projection at connection time, then
\* the frames of `due`
Owed(c) ==
  IF connectedWith[c] = <<>> THEN <<>>
  ELSE <<StateFrame(connectedWith[c][1])>> \o due[c]

IsPrefix(s, t) == Len(s) <= Len(t) /\ s = SubSeq(t, 1, Len(s))

\* C18: the first frame a connected client is sent is the state frame of the
\* projection the bus held when it connected; no event and no later state
\* frame is sent to it before.
C18_FirstFrameIsStateAtConnect ==
  \A c \in SocketIds :
    /\ sockets[c].sent # <<>> =>
         sockets[c].sent[1] = StateFrame(connectedWith[c][1])
    /\ (sockets[c].readyState # "NONE" /\ ~sockets[c].sendThrows) =>
         sockets[c].sent # <<>>

C18_Witness ==
  \E c \in SocketIds :
    /\ Len(sockets[c].sent) >= 2
    /\ connectedWith[c][1] # createInitialState
    /\ sockets[c].sent[2].type = "event"

\* C19: while the server is started every setState and emit sends a frame to
\* every connected, open socket, in publication order; a socket whose send
\* fails costs no other socket a frame, and the publisher sees no exception.
C19_BroadcastReachesEveryOpenSocket ==
  /\ \A c \in SocketIds :
       IF sockets[c].sendThrows THEN IsPrefix(sockets[c].sent, Owed(c))
       ELSE sockets[c].sent = Owed(c)
  /\ lastOp.op \in {"setState", "emit"} => ~lastOp.threw

C19_Witness ==
  /\ server.clients = <<"c1", "c2">>
  /\ sockets["c1"].readyState = "OPEN"
  /\ sockets["c1"].sendThrows
  /\ Len(due["c1"]) >= 2
  /\ Len(sockets["c1"].sent) <= 1
  /\ ~sockets["c2"].sendThrows
  /\ Len(sockets["c2"].sent) >= 3
  /\ sockets["c2"].sent[2].type = "state"
  /\ sockets["c2"].sent[3].type = "event"
  /\ lastOp.op = "emit"

----------------------------------------------------------------------------
(* Claims about shared projections *)

\* the parts of a projection subscribers draw
SharedPart(state) ==
  [agents |-> state.agents, orchestrator |-> state.orchestrator,
   currentNotification |-> state.currentNotification]

\* C21: a projection the bus holds or has published changes only by being
\* replaced through setState: its agents, orchestrator and notification stay
\* as they were when the bus took it, whatever processEvent is applied to.
C21_ProjectionsOnlyReplaced ==
  \A i \in 1..Len(pubLog) :
    SharedPart(deref(heap, pubLog[i].ref)) = SharedPart(pubLog[i].state)

\* C27: stop() closes every connected socket and the listener and leaves the
\* client set empty; a stop() of a server that was not started, or was stopped
\* already, changes nothing; stop() never raises.
C27_StopClosesAndIsIdempotent ==
  [][lastOp'.op = "stop" =>
       /\ ~lastOp'.threw
       /\ server' = NewServer
       /\ \A c \in SocketIds :
            IF c \in Range(server.clients)
            THEN sockets'[c] = [sockets[c] EXCEPT !.readyState = "CLOSED"]
            ELSE sockets'[c] = sockets[c]
       /\ emitter' = emitter
       /\ server = NewServer => sockets' = sockets
    ]_vars

\* a started server with both clients connected, stopped
C27_Witness ==
  /\ lastOp.op = "stop"
  /\ startPromise.state = "resolved"
  /\ \A c \in SocketIds : connectedWith[c] # <<>> /\ sockets[c].readyState = "CLOSED"
  /\ sockets["c1"].sent # <<>>
  /\ server = NewServer

----------------------------------------------------------------------------
(* Claims about the change watcher *)

LogHas(cb) == \E i \in 1..Len(opLog) : opLog[i].cb = cb

\* C2: when a tick yields both a new snapshot and events, the new projection
\* is in place before any event of that tick is delivered: every onEvent call
\* of an operation comes after the onSessionChange call for the same snapshot
\* and, in the dashboard, sees the bus holding that snapshot's projection.
C2_ProjectionBeforeEvents ==
  \A j \in 1..Len(opLog) :
    opLog[j].cb = "onEvent" =>
      /\ \E i \in 1..(j - 1) :
           /\ opLog[i].cb = "onSessionChange"
           /\ opLog[i].session = opLog[j].session
      /\ wiring = "dashboard" =>
           opLog[j].view = dashboardState(opLog[j].session, opLog[j].now).state

\* a dashboard tick that changed the projection and delivered a completion
C2_Witness ==
  /\ wiring = "dashboard"
  /\ lastPoll # <<>> /\ lastPoll[1].outcome = "ok"
  /\ \E j \in 1..Len(opLog) :
       /\ opLog[j].cb = "onEvent"
       /\ opLog[j].event.type = "task_complete"
       /\ opLog[j].view = getState(emitter)
       /\ opLog[j].view.inbox # <<>>

\* C6: a read or parse failure during a poll is retried on the following tick:
\* the tick after a tick whose load failed reading or parsing loads again,
\* whenever it can stat the file.
C6_FailedLoadIsRetried ==
  (/\ prevPoll # <<>>
   /\ lastPoll # <<>>
   /\ prevPoll[1].outcome \in {"read", "parse"}
   /\ lastPoll[1].stat)
  => lastPoll[1].loaded

\* C7: stopping the watcher halts polling and no callback fires afterward:
\* nothing but further stop() calls follows a stop() call.
C7_NothingAfterStop ==
  /\ stoppedBefore => \A i \in 1..Len(opLog) : opLog[i].cb = "stop"
  /\ \A i, j \in 1..Len(opLog) :
       (i < j /\ opLog[i].cb = "stop") => opLog[j].cb = "stop"

\* the last operation was a tick that read and parsed the file as it is now
TickLoadedFile ==
  /\ lastPoll # <<>>
  /\ lastPoll[1].loaded
  /\ lastPoll[1].outcome # "read"
  /\ opLog # <<>>
  /\ opLog[1].cb = "poll"
  /\ watcher.previousMtime = file.mtime

WellFormed(content) == content.kind = "session" /\ content.session.agents # <<>>

\* C22: the watcher tolerates a malformed file: after a load of a file that
\* does not parse or lacks the agents collection it keeps polling, and a tick
\* that loads a well-formed snapshot publishes it through onSessionChange.
C22_MalformedFileTolerated ==
  TickLoadedFile =>
    /\ (alive /\ lastPoll[1].outcome \in {"parse", "diff", "callback"}) =>
         watcher.pollInterval
    /\ WellFormed(file.content) =>
         \E i \in 1..Len(opLog) :
           /\ opLog[i].cb = "onSessionChange"
           /\ opLog[i].session = file.content.session

\* start() has failed for want of a session pointer or of the session file
StartRefused ==
  /\ startResult = "false"
  /\ opLog # <<>>
  /\ opLog[1].cb = "onError"
  /\ opLog[1].why \in {"nosession", "nofile"}

\* C16: when there is no active session pointer or the session file is absent,
\* start() returns false, calls onError, starts no poll timer and calls neither
\* onSessionChange nor onEvent; nothing happens in the watcher afterwards.
C16_StartRefused ==
  [][/\ (startResult = "none" /\ startResult' # "none" /\ (~env \/ ~file.exists)) =>
          /\ startResult' = "false"
          /\ Len(opLog') = 1
          /\ opLog'[1].cb = "onError"
          /\ ~watcher'.pollInterval
     /\ StartRefused => (~watcher'.pollInterval /\ opLog' = opLog /\ ticks' = ticks)]_vars

\* start() refused for a missing file, and the file appeared later
C16_Witness ==
  /\ StartRefused
  /\ opLog[1].why = "nofile"
  /\ file.exists
  /\ ~watcher.pollInterval

(***************************************************************************)
(* The music lock (services/hash.ts, class ElevatorMusic).  Every process  *)
(* runs one player; the players share LOCK_FILE.  A player's call is a     *)
(* sequence of file-system calls, and the calls of other processes come    *)
(* between them.  Within one process nothing comes between: the refresh    *)
(* timer runs only when no call of that process is under way.              *)
(***************************************************************************)

LOCK_STALE_MS == 30000

MaxLockTicks == 3

\* the processes that run a player
LivePids == {1, 2, 3}

\* a process that ran a player and crashed while it held the lock
CrashedPids == {4}

NewPlayer ==
  [pc |-> "idle", isPlaying |-> FALSE, hasLock |-> FALSE,
   lockRefreshInterval |-> FALSE, timerDue |-> FALSE, newLockData |-> <<>>]

\* process.kill(pid, 0) returns when the process exists, throws otherwise
kill0(pid) == pid \in LivePids

\* writeFileSync(LOCK_FILE, data, { flag: 'wx' }): creates the file, fails
\* with EEXIST when there is one
writeExclusive(f, data) ==
  IF f = <<>> THEN [file |-> <<data>>, ok |-> TRUE]
  ELSE [file |-> f, ok |-> FALSE]

\* a call that returns false: the player is back where it was
gaveUp(pl) == [pl EXCEPT !.pc = "idle", !.newLockData = <<>>]

\* hasLock = true, the refresh timer is set, and start() goes on to play
tookLock(pl) ==
  [pl EXCEPT !.pc = "idle", !.newLockData = <<>>, !.hasLock = TRUE,
             !.lockRefreshInterval = TRUE, !.timerDue = FALSE,
             !.isPlaying = TRUE]

\* tryAcquireLock up to its exclusive write; on EEXIST it goes on in
\* tryTakeStaleLock with the lock data it made
tryAcquireLock(f, pl, pid, now) ==
  LET lockData == [pid |-> pid, timestamp |-> now]
      w == writeExclusive(f, lockData)
  IN  IF w.ok THEN [file |-> w.file, player |-> tookLock(pl)]
      ELSE [file |-> f,
            player |-> [pl EXCEPT !.pc = "readLock",
                                  !.newLockData = <<lockData>>]]

\* tryTakeStaleLock, the read and the test: the lock is left alone when it
\* is younger than LOCK_STALE_MS, another process's, and that process exists
readExistingLock(f, pl, pid, now) ==
  IF f = <<>> THEN [file |-> f, player |-> gaveUp(pl)]
  ELSE LET existingLock == f[1]
           lockAge == now - existingLock.timestamp
       IN  IF /\ lockAge < LOCK_STALE_MS
              /\ existingLock.pid # pid
              /\ kill0(existingLock.pid)
           THEN [file |-> f, player |-> gaveUp(pl)]
           ELSE [file |-> f, player |-> [pl EXCEPT !.pc = "unlinkLock"]]

\* tryTakeStaleLock, unlinkSync(LOCK_FILE): throws when the file is gone
unlinkStaleLock(f, pl) ==
  IF f = <<>> THEN [file |-> f, player |-> gaveUp(pl)]
  ELSE [file |-> <<>>, player |-> [pl EXCEPT !.pc = "rewriteLock"]]

\* tryTakeStaleLock, the second exclusive write
rewriteLock(f, pl) ==
  LET w == writeExclusive(f, pl.newLockData[1])
  IN  IF w.ok THEN [file |-> w.file, player |-> tookLock(pl)]
      ELSE [file |-> f, player |-> gaveUp(pl)]

\* refreshLock: flag 'w' writes the file whether or not there is one
refreshLock(f, pl, pid, now) ==
  IF ~pl.hasLock THEN [file |-> f, player |-> pl]
  ELSE [file |-> <<[pid |-> pid, timestamp |-> now]>>, player |-> pl]

\* stop() and releaseLock up to existsSync
releaseLock(f, pl) ==
  LET cleared == [pl EXCEPT !.isPlaying = FALSE,
                            !.lockRefreshInterval = FALSE,
                            !.timerDue = FALSE]
  IN  IF ~pl.hasLock THEN [file |-> f, player |-> cleared]
      ELSE IF f = <<>>
           THEN [file |-> f, player |-> [cleared EXCEPT !.hasLock = FALSE]]
           ELSE [file |-> f, player |-> [cleared EXCEPT !.pc = "releaseRead"]]

\* releaseLock, the read and the comparison of pids
releaseRead(f, pl, pid) ==
  IF f # <<>> /\ f[1].pid = pid
  THEN [file |-> f, player |-> [pl EXCEPT !.pc = "releaseUnlink"]]
  ELSE [file |-> f, player |-> [pl EXCEPT !.pc = "idle", !.hasLock = FALSE]]

\* releaseLock, unlinkSync and hasLock = false; a failed unlink is ignored
releaseUnlink(f, pl) ==
  [file |-> <<>>, player |-> [pl EXCEPT !.pc = "idle", !.hasLock = FALSE]]

(* SpecLock: three processes start and stop their players while the clock
   runs.  The lock file is absent at first, or left by a crashed process.
   A call takes no time, and a refresh timer that is due runs before the
   clock moves on. *)

InitLock ==
  /\ InitBus
  /\ faulty = {}
  /\ DiffIdle
  /\ WatchIdle
  /\ FnIdle
  /\ ServerIdle
  /\ ShareIdle
  /\ lockFile \in {<<>>} \cup {<<[pid |-> p, timestamp |-> 0]>> : p \in CrashedPids}
  /\ lockClock = 0
  /\ players = [p \in LivePids |-> NewPlayer]

LockStep(p, r) ==
  /\ lockFile' = r.file
  /\ players' = [players EXCEPT ![p] = r.player]
  /\ UNCHANGED lockClock

\* start(): a player that plays returns at once; force skips the lock
MusicStart(p, force) ==
  /\ players[p].pc = "idle"
  /\ ~players[p].isPlaying
  /\ IF force
     THEN LockStep(p, [file |-> lockFile,
                       player |-> [players[p] EXCEPT !.isPlaying = TRUE]])
     ELSE LockStep(p, tryAcquireLock(lockFile, players[p], p, lockClock))

ReadExistingLock(p) ==
  /\ players[p].pc = "readLock"
  /\ LockStep(p, readExistingLock(lockFile, players[p], p, lockClock))

UnlinkStaleLock(p) ==
  /\ players[p].pc = "unlinkLock"
  /\ LockStep(p, unlinkStaleLock(lockFile, players[p]))

RewriteLock(p) ==
  /\ players[p].pc = "rewriteLock"
  /\ LockStep(p, rewriteLock(lockFile, players[p]))

\* the interval timer's callback
RefreshLock(p) ==
  /\ players[p].pc = "idle"
  /\ players[p].lockRefreshInterval
  /\ players[p].timerDue
  /\ LockStep(p, [file |-> refreshLock(lockFile, players[p], p, lockClock).file,
                  player |-> [players[p] EXCEPT !.timerDue = FALSE]])

MusicStop(p) ==
  /\ players[p].pc = "idle"
  /\ players[p].isPlaying
  /\ LockStep(p, releaseLock(lockFile, players[p]))

ReleaseRead(p) ==
  /\ players[p].pc = "releaseRead"
  /\ LockStep(p, releaseRead(lockFile, players[p], p))

ReleaseUnlink(p) ==
  /\ players[p].pc = "releaseUnlink"
  /\ LockStep(p, releaseUnlink(lockFile, players[p]))

\* LOCK_STALE_MS / 3 pass, between calls: every refresh timer that is set
\* becomes due
LockTick ==
  /\ lockClock < MaxLockTicks * (LOCK_STALE_MS \div 3)
  /\ \A p \in LivePids : players[p].pc = "idle" /\ ~players[p].timerDue
  /\ lockClock' = lockClock + LOCK_STALE_MS \div 3
  /\ players' = [p \in LivePids |->
                   [players[p] EXCEPT !.timerDue = players[p].lockRefreshInterval]]
  /\ UNCHANGED lockFile

NextLock ==
  (\/ \E p \in LivePids, force \in BOOLEAN : MusicStart(p, force)
   \/ \E p \in LivePids : ReadExistingLock(p)
   \/ \E p \in LivePids : UnlinkStaleLock(p)
   \/ \E p \in LivePids : RewriteLock(p)
   \/ \E p \in LivePids : RefreshLock(p)
   \/ \E p \in LivePids : MusicStop(p)
   \/ \E p \in LivePids : ReleaseRead(p)
   \/ \E p \in LivePids : ReleaseUnlink(p)
   \/ LockTick)
  /\ UNCHANGED <<busVars, diffVars, watchVars, fnVars, srvVars, shareVars>>

SpecLock == InitLock /\ [][NextLock]_vars

(* C28: the lock file gives mutual exclusion: whatever the order of the
   acquire, takeover, refresh and release steps of the live processes, at
   most one of them has hasLock set at a time. *)
C28_AtMostOneHolder ==
  \A p, q \in DOMAIN players :
    (players[p].hasLock /\ players[q].hasLock) => p = q

(* C29: an exception of a subscriber is caught wherever the bus invokes it,
   the first invocation inside onStateChange included: no call of
   onStateChange, setState or emit ends in an exception, and the caller of
   onStateChange gets its handle (the call returns). *)
C29_SubscriberFaultNeverPropagates ==
  lastOp.op \in {"onStateChange", "setState", "emit"} => ~lastOp.threw

\* the step's log holds an onEvent call
EmitsInLog(log) == \E j \in 1..Len(log) : log[j].cb = "onEvent"

(* C30: a load made while the watcher has no previous snapshot computes no
   diff: it emits no event, whatever agents the snapshot holds, and a
   snapshot it parsed is handed to onSessionChange and kept as the previous
   one. *)
C30_FirstLoadEmitsNothing ==
  [][(watcher.previousSession = <<>> /\ opLog' # opLog) =>
       /\ ~EmitsInLog(opLog')
       /\ watcher'.previousSession # <<>> =>
            \E i \in 1..Len(opLog') :
              /\ opLog'[i].cb = "onSessionChange"
              /\ opLog'[i].session = watcher'.previousSession[1]]_vars

\* start() has loaded a snapshot of two agents, one of which carries skills,
\* into the dashboard, and no event was emitted
C30_Witness ==
  /\ startResult = "true"
  /\ ticks = 0
  /\ wiring = "dashboard"
  /\ opLog # <<>>
  /\ opLog[1].cb = "onSessionChange"
  /\ opLog[1].session.agents # <<>>
  /\ Len(opLog[1].session.agents[1]) = 2
  /\ SkillsOf(opLog[1].session.agents[1][2]) # <<>>
  /\ watcher.previousSession = <<opLog[1].session>>
  /\ ~EmitsInLog(opLog)

\* C30 as stated: the first load emits received_work for every agent record
\* of the snapshot it loaded.
C30_FirstLoadAnnouncesEveryAgent ==
  (/\ ticks = 0
   /\ opLog # <<>>
   /\ opLog[1].cb = "onSessionChange"
   /\ opLog[1].session.agents # <<>>)
  => \A k \in 1..Len(opLog[1].session.agents[1]) :
       \E j \in 1..Len(opLog) :
         /\ opLog[j].cb = "onEvent"
         /\ opLog[j].event.type = "received_work"
         /\ opLog[j].event.agentId = opLog[1].session.agents[1][k].gkSessionId

----------------------------------------------------------------------------
(* Claims about the skill events and the order of a diff *)

\* the skills the diff announces for agent id, in the order of the event list
ActivatedSkills(id) ==
  LET about == SelectSeq(dResult[1].events,
                         LAMBDA e : e.type = "skill_activated" /\ e.agentId = id)
  IN [i \in 1..Len(about) |-> about[i].skill]

(* C31: for an agent of both snapshots the skill_activated events of the
   diff are, in list order, the entries of its current skills list that are
   not in its previous list, one event each, whether or not its status
   changed, and none for a skill it had before; for an agent the previous
   snapshot lacks there is one skill_activated, for the first skill of its
   list, when the list is not empty, and none otherwise. *)
C31_SkillActivatedPerNewSkill ==
  DiffDone =>
    \A i \in 1..Len(dCurr[1].agents[1]) :
      LET a == dCurr[1].agents[1][i]
          p == prevAgentOf(dPrev[1].agents[1], a.gkSessionId)
          acts == ActivatedSkills(a.gkSessionId)
      IN IF p # <<>>
         THEN /\ acts = SelectSeq(SkillsOf(a),
                                  LAMBDA sk : sk \notin Range(SkillsOf(p[1])))
              /\ \A k \in 1..Len(acts) : acts[k] \notin Range(SkillsOf(p[1]))
         ELSE /\ Len(acts) = (IF SkillsOf(a) = <<>> THEN 0 ELSE 1)
              /\ \A k \in 1..Len(acts) : acts[k] = SkillsOf(a)[1]

\* a known agent whose status did not change gained a second skill, and the
\* diff announces that skill alone
C31_Witness ==
  /\ DiffDone
  /\ \E i \in 1..Len(dCurr[1].agents[1]) :
       LET a == dCurr[1].agents[1][i]
           p == prevAgentOf(dPrev[1].agents[1], a.gkSessionId)
       IN /\ p # <<>>
          /\ p[1].status = a.status
          /\ SkillsOf(p[1]) = <<"s1">>
          /\ SkillsOf(a) = <<"s1", "s2">>
          /\ ActivatedSkills(a.gkSessionId) = <<"s2">>

\* the position in the current snapshot of the record with this id
AgentIndex(id) ==
  CHOOSE i \in 1..Len(dCurr[1].agents[1]) : dCurr[1].agents[1][i].gkSessionId = id

(* C32: the event list of a diff is ordered: the events about agents come
   grouped by agent, in the order of the agents in the current snapshot; a
   new agent's received_work comes before its skill_activated; a known
   agent's task_complete and delivering come before its skill_activated
   events; a session_complete event is the last element. *)
C32_DiffOrder ==
  DiffDone =>
    LET ev == dResult[1].events
    IN \A i, j \in 1..Len(ev) :
         i < j =>
           /\ ev[i].type # "session_complete"
           /\ ev[j].type # "session_complete" =>
                /\ AgentIndex(ev[i].agentId) <= AgentIndex(ev[j].agentId)
                /\ ev[i].agentId = ev[j].agentId =>
                     /\ ev[j].type # "received_work"
                     /\ ev[j].type \in {"task_complete", "delivering"} =>
                          ev[i].type # "skill_activated"

\* the sub-agent, listed first, completed and gained a skill, the root after it
\* completed too: six events, the session_complete last
C32_Witness ==
  /\ DiffDone
  /\ Len(dResult[1].events) = 6
  /\ dResult[1].events[1].type = "task_complete"
  /\ dResult[1].events[1].agentId = "a2"
  /\ dResult[1].events[2].type = "delivering"
  /\ dResult[1].events[3].type = "skill_activated"
  /\ dResult[1].events[4].type = "task_complete"
  /\ dResult[1].events[4].agentId = "a1"
  /\ dResult[1].events[6].type = "session_complete"

----------------------------------------------------------------------------
(* Claims about the poll tick *)

(* C33: a tick reads the file again and runs the pipeline (onSessionChange
   or onError follows) if and only if it can stat the file and the file's
   modification time is greater than the recorded one, which it then
   records; the recorded time never decreases; a tick that finds the time
   not advanced, or cannot stat the file, invokes no callback and leaves the
   recorded time and the previous snapshot as they were. *)
C33_TickLoadsIffAdvanced ==
  [][/\ watcher'.previousMtime >= watcher.previousMtime
     /\ ticks' = ticks + 1 =>
          /\ lastPoll'[1].loaded <=>
               (lastPoll'[1].stat /\ file.mtime > watcher.previousMtime)
          /\ lastPoll'[1].loaded =>
               /\ watcher'.previousMtime = file.mtime
               /\ \E i \in 1..Len(opLog') :
                    opLog'[i].cb \in {"onSessionChange", "onError"}
          /\ ~lastPoll'[1].loaded =>
               /\ watcher'.previousMtime = watcher.previousMtime
               /\ watcher'.previousSession = watcher.previousSession
               /\ emitter' = emitter
               /\ \A i \in 1..Len(opLog') : opLog'[i].cb = "poll"]_vars

\* a tick loaded a rewritten file, and the tick after it could stat the file,
\* found the time not advanced and did nothing
C33_Witness ==
  /\ prevPoll # <<>>
  /\ prevPoll[1].loaded
  /\ prevPoll[1].outcome = "ok"
  /\ lastPoll # <<>>
  /\ lastPoll[1].stat
  /\ ~lastPoll[1].loaded
  /\ watcher.previousMtime = file.mtime
  /\ watcher.previousMtime > 1
  /\ watcher.previousSession # <<>>
  /\ Len(opLog) = 1
  /\ opLog[1].cb = "poll"

----------------------------------------------------------------------------
(* Claims about client messages *)

\* the last step was a 'message' event on an open socket
MessageStep == lastOp'.op = "message" /\ lastOp' # lastOp

(* C34: a ping from a client is answered with one pong frame, sent on that
   client's socket alone (and lost if the send fails); a message that is no
   JSON or has an unknown or no type produces no frame; neither closes the
   connection, changes another client's socket, the set of clients or the
   bus. *)
C34_PingAnsweredOthersIgnored ==
  [][MessageStep =>
       LET c == lastOp'.arg[1]
           data == lastOp'.arg[2]
       IN /\ sockets'[c].sent =
               IF data = "{\"type\":\"ping\"}" /\ ~sockets[c].sendThrows
               THEN Append(sockets[c].sent, [type |-> "pong", data |-> <<>>])
               ELSE sockets[c].sent
          /\ sockets'[c].readyState = sockets[c].readyState
          /\ \A d \in SocketIds \ {c} : sockets'[d] = sockets[d]
          /\ server' = server
          /\ emitter' = emitter]_vars

\* with both clients connected, c1 has had its ping answered and c2 has sent
\* the text null: c2 got nothing beyond its greeting and is still open
C34_Witness ==
  /\ lastOp.op = "message"
  /\ lastOp.arg = <<"c2", "null">>
  /\ sockets["c2"].readyState = "OPEN"
  /\ Len(sockets["c2"].sent) = 1
  /\ sockets["c1"].readyState = "OPEN"
  /\ Len(sockets["c1"].sent) = 2
  /\ sockets["c1"].sent[2].type = "pong"

----------------------------------------------------------------------------
(* Claims about the agent views of a projection *)

\* the ids of the snapshot's records
RecordIds == {MappedRecords[i].gkSessionId : i \in 1..Len(MappedRecords)}

\* the ids the projection shows, and how many views it shows
ShownIds(state) == {v.id : v \in ViewsOf(state)}

ShownCount(state) == Cardinality(DOMAIN state.agents) + Len(state.orchestrator)

\* no two records share an id and at most one is classified as orchestrator
OneOrchestratorDistinctIds ==
  /\ \A i, j \in 1..Len(MappedRecords) :
       MappedRecords[i].gkSessionId = MappedRecords[j].gkSessionId => i = j
  /\ Cardinality(IndicesWhere(TRUE)) <= 1

\* C35 as stated: every record of the snapshot is represented exactly once,
\* as the orchestrator or under its id in the agents mapping, and no other id
\* appears.
C35_EveryRecordShownOnce ==
  Mapped =>
    /\ ShownIds(mResult[1].state) = RecordIds
    /\ ShownCount(mResult[1].state) = Len(MappedRecords)

(* C35: the agent views depend on the snapshot alone: no id the snapshot
   lacks appears, mapping the snapshot again shows the same ids in the same
   places, the agents mapping holds one view for every id with a record not
   classified as orchestrator, and the orchestrator slot holds one view, of
   the last record so classified, when there is one.  Every record is
   represented exactly once when no two records share an id and at most one
   is classified as orchestrator; otherwise only the last record of an id,
   and the last orchestrator, are represented. *)
C35_ViewsFollowSnapshot ==
  Mapped =>
    /\ ShownIds(mResult[1].state) \subseteq RecordIds
    /\ DOMAIN mResult[1].state.agents =
         {MappedRecords[i].gkSessionId : i \in IndicesWhere(FALSE)}
    /\ Len(mResult[1].state.orchestrator) = (IF IndicesWhere(TRUE) = {} THEN 0 ELSE 1)
    /\ IndicesWhere(TRUE) # {} =>
         mResult[1].state.orchestrator[1].id =
           MappedRecords[Max(IndicesWhere(TRUE))].gkSessionId
    /\ mAgain # <<>> =>
         /\ DOMAIN mAgain[1].state.agents = DOMAIN mResult[1].state.agents
         /\ ShownIds(mAgain[1].state) = ShownIds(mResult[1].state)
         /\ ShownCount(mAgain[1].state) = ShownCount(mResult[1].state)
    /\ OneOrchestratorDistinctIds =>
         /\ ShownIds(mResult[1].state) = RecordIds
         /\ ShownCount(mResult[1].state) = Len(MappedRecords)
         /\ \A id \in DOMAIN mResult[1].state.agents :
              \A k \in 1..Len(mResult[1].state.orchestrator) :
                mResult[1].state.orchestrator[k].id # id

\* a snapshot of the session's own record and one sub-agent, mapped twice:
\* one orchestrator view and one view in the agents mapping
C35_Witness ==
  /\ Mapped
  /\ mAgain # <<>>
  /\ Len(MappedRecords) = 2
  /\ OneOrchestratorDistinctIds
  /\ IndicesWhere(TRUE) = {1}
  /\ mResult[1].state.orchestrator[1].id = MappedRecords[1].gkSessionId
  /\ DOMAIN mResult[1].state.agents = {MappedRecords[2].gkSessionId}

----------------------------------------------------------------------------
(* Claims about publications made from inside a notification *)

\* the place of a projection in the order of the setState calls; 0 for the
\* projection the bus was built with
PublicationIndex(state) ==
  IF state = createInitialState THEN 0
  ELSE CHOOSE i \in 1..(MaxBusCalls + 1) : state = NthProjection(i)

(* C36: no state listener is invoked with an older projection after a newer
   one, also when a listener calls setState from inside a notification: what
   each listener has been handed follows the order of the setState calls,
   with repeats and never backwards, and ends with the projection the bus
   holds while the listener is registered. *)
C36_StatesNeverGoBack ==
  \A l \in StateListenerIds :
    /\ \A j, k \in 1..Len(emitter.seenStates[l]) :
         j < k => PublicationIndex(emitter.seenStates[l][j])
                    <= PublicationIndex(emitter.seenStates[l][k])
    /\ l \in Range(emitter.stateListeners) =>
         Last(emitter.seenStates[l]) = emitter.state

\* sl1, registered before sl2, answered the first setState with a second one:
\* sl2 was handed the second projection twice and never the first
C36_Witness ==
  /\ lastOp.op = "setState"
  /\ lastOp.arg = <<1, "sl1", 2>>
  /\ emitter.stateListeners = <<"sl1", "sl2">>
  /\ emitter.seenStates["sl1"] = <<createInitialState, NthProjection(1), NthProjection(2)>>
  /\ emitter.seenStates["sl2"] = <<createInitialState, NthProjection(2), NthProjection(2)>>
  /\ emitter.state = NthProjection(2)

\* the place of an event in the order in which the events were appended to
\* the history (each emitted event is a new one)
HistoryIndex(e) ==
  CHOOSE i \in 1..Len(emitter.emitted) : emitter.emitted[i] = e

(* C37: every event listener is notified of events in the order in which
   they were appended to the history, also when a listener calls emit from
   inside a notification, and every event a listener was notified of has
   been appended to the history. *)
C37_EventsInHistoryOrder ==
  \A l \in EventListenerIds :
    /\ \A j \in 1..Len(emitter.seenEvents[l]) :
         \E i \in 1..Len(emitter.emitted) :
           emitter.emitted[i] = emitter.seenEvents[l][j].event
    /\ \A j, k \in 1..Len(emitter.seenEvents[l]) :
         j < k => HistoryIndex(emitter.seenEvents[l][j].event)
                    < HistoryIndex(emitter.seenEvents[l][k].event)

----------------------------------------------------------------------------
(* Claims about the server's subscriptions *)

\* the bus holds a listener of the server
ServerSubscribed ==
  \/ ServerStateListener \in Range(emitter.stateListeners)
  \/ ServerEventListener \in Range(emitter.eventListeners)

(* C38: whatever the order of start(), stop(), setState and emit, a setState
   or emit delivers at most one frame to each client, and a server that is
   not running (never started, failed to start, or stopped) holds no
   subscription on the bus: stop() releases the listeners start()
   registered. *)
C38_StoppedServerHoldsNoSubscription ==
  [][/\ lastOp'.op \in {"setState", "emit"} =>
          \A c \in SocketIds : Len(sockets'[c].sent) <= Len(sockets[c].sent) + 1
     /\ (~server'.wss /\ ~server'.server) => ~ServerSubscribed']_vars

----------------------------------------------------------------------------
(* Claims about events that map to the state an agent is in *)

(* C39: no state of the transition table lists itself as a destination, so
   an event whose mapped destination is the agent's current state leaves the
   whole view as it was (skill_activated on a working agent changes neither
   its activeSkill, its highlight flag nor its speech bubble); and
   task_complete followed by delivering, the completion sequence of the
   diff, takes a working agent to idle and leaves it there. *)
C39_NoMoveToCurrentState ==
  /\ \A st \in AgentStates : st \notin VALID_TRANSITIONS[st]
  /\ (tResult # <<>> /\ stateMap(tEvent[1].type) = tAgent[1].state) =>
       tResult[1] = tAgent[1]
  /\ (tResult # <<>> /\ tAgent[1].state = "working"
                     /\ tEvent[1].type = "task_complete") =>
       /\ tResult[1].state = "idle"
       /\ \A e \in MachineEvents :
            e.type = "delivering" =>
              transitionAgent(tResult[1], e) = tResult[1]

\* a working agent on skill s1, not highlighted, is sent skill_activated for
\* s2 with a message: nothing changes
C39_Witness ==
  /\ tResult # <<>>
  /\ tAgent[1].state = "working"
  /\ tAgent[1].activeSkill = "s1"
  /\ ~tAgent[1].hasFireEffect
  /\ tEvent[1].type = "skill_activated"
  /\ tEvent[1].skill = "s2"
  /\ tEvent[1].message # <<>>
  /\ tResult[1] = tAgent[1]

----------------------------------------------------------------------------
(* Claims about loads that fail *)

\* the events a watcher operation handed to onEvent, in order
EventsOfLog(log) ==
  LET calls == SelectSeq(log, LAMBDA c : c.cb = "onEvent")
  IN [i \in 1..Len(calls) |-> calls[i].event]

(* C40: a tick whose load fails reading or parsing the file leaves the
   retained previous snapshot as it was and hands no snapshot or event to
   the caller; a tick whose load succeeds hands onEvent the diff of the
   retained snapshot (the last one loaded, whatever failures came between)
   against the file, each event once, and retains the file's snapshot, so
   that a change of status or skills made across failed ticks is reported
   once. *)
C40_FailedLoadKeepsPreviousSnapshot ==
  [][ticks' = ticks + 1 =>
       /\ lastPoll'[1].outcome \in {"read", "parse"} =>
            /\ watcher'.previousSession = watcher.previousSession
            /\ \A i \in 1..Len(opLog') : opLog'[i].cb \in {"poll", "onError"}
       /\ (lastPoll'[1].outcome = "ok" /\ watcher.previousSession # <<>>) =>
            /\ EventsOfLog(opLog') =
                 diffSessions(watcher.previousSession[1], file.content.session,
                              Now(ticks')).events
            /\ watcher'.previousSession = <<file.content.session>>]_vars

\* the sub-agent was active with one skill when the file was last loaded; a
\* tick failed to read or parse the rewritten file; the tick after the next
\* rewrite loaded it and reported the sub-agent's completion and its new
\* skill, once each
C40_Witness ==
  /\ prevPoll # <<>>
  /\ prevPoll[1].outcome \in {"read", "parse"}
  /\ lastPoll # <<>>
  /\ lastPoll[1].outcome = "ok"
  /\ ticks = 2
  /\ Cardinality({j \in 1..Len(opLog) :
                    /\ opLog[j].cb = "onEvent"
                    /\ opLog[j].event.type = "task_complete"
                    /\ opLog[j].event.agentId = "a2"}) = 1
  /\ Cardinality({j \in 1..Len(opLog) :
                    /\ opLog[j].cb = "onEvent"
                    /\ opLog[j].event.type = "skill_activated"
                    /\ opLog[j].event.agentId = "a2"
                    /\ opLog[j].event.skill = "s2"}) = 1

====
